---- MODULE Spec2Model ----
(***************************************************************************)
(* Tile-map-service scraper: the controller and its HTTP control routes    *)
(* (backend/api.js, ScraperController), the tile discovery engine          *)
(* (TileGenerator), the refresh scheduler (TMSScraper.scrapePbfTiles) and  *)
(* the priority queue, over the relational tile store.                     *)
(*                                                                         *)
(* Geometry is modelled in projected tile space: one minZoom tile is Sub   *)
(* lattice units wide, a tile at zoom z is TileWidth(z) units wide, and    *)
(* the region is a closed axis-parallel rectangle with lattice corners.    *)
(* Half a maxZoom tile is one unit, so a region corner can lie inside a    *)
(* tile or exactly on a tile edge.                                         *)
(***************************************************************************)
EXTENDS Integers, Sequences, FiniteSets, TLC

VARIABLES
    isInitialized,      \* ScraperController.isInitialized
    isRunning,          \* ScraperController.isRunning
    currentOperation,   \* ScraperController.currentOperation
    ctorInit,           \* the constructor's un-awaited this.init(): "pending" | "done"
    initReq,            \* open POST /api/init handlers, by slot
    gen,                \* generateTilesInBackground promises, by slot
    scr,                \* scrapePbfTiles promises, by slot
    queue,              \* TMSScraper.priorityQueue.queue
    austriaData,        \* TileGenerator.austriaData: the region
    tiles,              \* table tiles
    pbf_tiles,          \* table pbf_tiles
    response,           \* the HTTP response the last step sent, if it sent one
    stopSeen,           \* per scheduler run: a stop was accepted while its queue held > 1 items
    lastDiscovered,     \* table tiles as the last successful discovery run left it
    settings,           \* TMSScraper.settings, overwritten by startScraping
    now,                \* the clock, in hours
    pbf_tiles_history,  \* table pbf_tiles_history, in the order of its serial id
    rejected,           \* the promise whose rejection no handler takes: the process exits
    controllerSettings, \* ScraperController.settings (settings is TMSScraper.settings)
    settingsTable,      \* table settings: key -> JSON text
    stats,              \* table stats, in the order of its serial id
    validated,          \* the last call of TileServer.validateTileCoordinates
    database            \* Database.isInitialized and the calls of Database.init

vars == <<isInitialized, isRunning, currentOperation, ctorInit, initReq, gen, scr,
          queue, austriaData, tiles, pbf_tiles, response, stopSeen, lastDiscovered,
          settings, now, pbf_tiles_history, rejected, controllerSettings,
          settingsTable, stats, validated, database>>

----------------------------------------------------------------------------
(* Bounds of the model *)

\* generateTilesInBackground promises that can be pending at once
MaxGenRuns == 2
\* scrapePbfTiles promises that can be pending at once
MaxScrapeRuns == 2
\* POST /api/init handlers that can be open at once
MaxInitReqs == 2
\* calls of Database.init the model follows
MaxDbCalls == 2
\* rows per insert transaction; stands for the 1000 of TileGenerator
\* (tileBatch.length >= 1000, tilesFound % 1000 === 0), scaled to the window
BatchLimit == 2

\* tiles one scheduler run counts as processed, and errors it counts, before
\* the model stops following it
MaxProcessed == 4
MaxErrors == 2
\* the clock at construction and the last hour of the model
StartTime == 3
MaxTime == 4
\* the remote server answers a fetch with one of the bodies 1..MaxContent
MaxContent == 2
\* the queue taken alone holds at most MaxQueue items
MaxQueue == 3

GenRuns == 1..MaxGenRuns
DbCalls == 1..MaxDbCalls
ScrapeRuns == 1..MaxScrapeRuns
InitReqs == 1..MaxInitReqs

\* TileGenerator.minZoom and TileGenerator.maxZoom (ZOOM_LEVEL=11)
minZoom == 10
maxZoom == 11

NULL == -1

RECURSIVE Pow2(_)
Pow2(n) == IF n = 0 THEN 1 ELSE 2 * Pow2(n - 1)

\* lattice units per minZoom tile: half a maxZoom tile is one unit
Sub == 2 * Pow2(maxZoom - minZoom)
TileWidth(z) == Sub \div Pow2(z - minZoom)

\* the window of minZoom tiles the model looks at, and the lattice positions a
\* region corner may take; the region keeps one tile of margin to the window's
\* low edges, so that every tile it can touch is in the window
WinX == 0..2
WinY == 0..1
CornerXs == Sub..(Cardinality(WinX) * Sub - 1)
CornerYs == Sub..(Cardinality(WinY) * Sub - 1)

Regions ==
    { r \in [minX : CornerXs, maxX : CornerXs, minY : CornerYs, maxY : CornerYs] :
        r.minX < r.maxX /\ r.minY < r.maxY }

\* the region of the controller specifications: in minZoom tile (1,1), over
\* two of its children
CtlRegion ==
    [minX |-> Sub, maxX |-> Sub + 1, minY |-> Sub + 1, maxY |-> Sub + 2]

Zooms == minZoom..maxZoom
TilesAt(z) ==
    { [x |-> x, y |-> y, z |-> z] :
        x \in 0..(Cardinality(WinX) * Pow2(z - minZoom) - 1),
        y \in 0..(Cardinality(WinY) * Pow2(z - minZoom) - 1) }
WindowTiles == UNION { TilesAt(z) : z \in Zooms }

Min(a, b) == IF a <= b THEN a ELSE b
Max(a, b) == IF a >= b THEN a ELSE b

----------------------------------------------------------------------------
(* TileGenerator: geometry *)

\* latLonToTile: floor of the projected position over the tile width
latLonToTile(py, px, zoom) ==
    [x |-> px \div TileWidth(zoom), y |-> py \div TileWidth(zoom)]

\* getTileBounds: the rectangle from corner (x, y) to corner (x+1, y+1)
getTileBounds(x, y, zoom) ==
    [minX |-> x * TileWidth(zoom), maxX |-> (x + 1) * TileWidth(zoom),
     minY |-> y * TileWidth(zoom), maxY |-> (y + 1) * TileWidth(zoom)]

\* booleanIntersects of two closed rectangles: they share a point, a boundary
\* point included
booleanIntersects(feature, b) ==
    /\ b.minX <= feature.maxX /\ feature.minX <= b.maxX
    /\ b.minY <= feature.maxY /\ feature.minY <= b.maxY

\* tileIntersectsAustria
tileIntersectsAustria(region, x, y, zoom) ==
    booleanIntersects(region, getTileBounds(x, y, zoom))

\* bbox(austriaData): [west, south, east, north]; tile y grows to the south
bbox(region) == <<region.minX, region.maxY, region.maxX, region.minY>>

----------------------------------------------------------------------------
(* Table tiles and the discovery engine's pure parts *)

TileRow(x, y, z, px, py, pz) ==
    [x |-> x, y |-> y, z |-> z, parent_x |-> px, parent_y |-> py, parent_z |-> pz]

Key(row) == [x |-> row.x, y |-> row.y, z |-> row.z]

\* INSERT INTO tiles ... ON CONFLICT (x, y, z) DO NOTHING, for the rows of one
\* committed transaction
InsertOnConflictDoNothing(store, rows) ==
    store \cup { r \in rows : \A t \in store : Key(t) # Key(r) }

\* Database.resetTiles: DELETE FROM tiles
resetTiles(store) == {}

\* COMMIT makes the statements' writes the tables; ROLLBACK leaves the tables
\* as they were at BEGIN
Commit(atBegin, written) == written
RollbackKeepsWrites(atBegin, written) == written
Rollback(atBegin, written) == atBegin

\* Database.getTilesByZoom: the rows of one zoom level
getTilesByZoom(store, z) == { t \in store : t.z = z }

\* the orders in which a SELECT without ORDER BY can return the rows of a set
RowOrders(S) ==
    { s \in [1..Cardinality(S) -> S] : \A i, j \in 1..Cardinality(S) : s[i] = s[j] => i = j }

Range(s) == { s[i] : i \in 1..Len(s) }

\* generateTilesForZoom: the rows the scan of the minZoom tile range inserts,
\* in scan order (x outer, y inner)
ScanRows(region, zoom) ==
    LET bounds  == bbox(region)
        minTile == latLonToTile(bounds[2], bounds[1], zoom)
        maxTile == latLonToTile(bounds[4], bounds[3], zoom)
        minX == Min(minTile.x, maxTile.x)
        maxX == Max(minTile.x, maxTile.x)
        minY == Min(minTile.y, maxTile.y)
        maxY == Max(minTile.y, maxTile.y)
        h    == maxY - minY + 1
        n    == (maxX - minX + 1) * h
        cand == [i \in 1..n |->
                    TileRow(minX + ((i - 1) \div h), minY + ((i - 1) % h), zoom,
                            NULL, NULL, NULL)]
        Hit(row) == tileIntersectsAustria(region, row.x, row.y, zoom)
    IN  SelectSeq(cand, Hit)

\* generateTiles: the four children of one parent that intersect the region, in
\* loop order (dx outer, dy inner), each with the parent's coordinates
ChildRows(region, parentTile, zoom) ==
    LET cand == [i \in 1..4 |->
                    TileRow(parentTile.x * 2 + ((i - 1) \div 2), parentTile.y * 2 + ((i - 1) % 2),
                            zoom, parentTile.x, parentTile.y, parentTile.z)]
        Hit(row) == tileIntersectsAustria(region, row.x, row.y, zoom)
    IN  SelectSeq(cand, Hit)

RECURSIVE ChildRowsOfAll(_, _, _)
ChildRowsOfAll(region, parentTiles, zoom) ==
    IF parentTiles = <<>> THEN <<>>
    ELSE ChildRows(region, Head(parentTiles), zoom)
            \o ChildRowsOfAll(region, Tail(parentTiles), zoom)

\* the rows of the next transaction: a full batch, or what is left
NextBatch(pending) == SubSeq(pending, 1, Min(BatchLimit, Len(pending)))
AfterBatch(pending) == SubSeq(pending, Min(BatchLimit, Len(pending)) + 1, Len(pending))

\* generateTilesForZoom: the columns of the scan, minX..maxX
ScanColumns(region, zoom) ==
    LET bounds  == bbox(region)
        minTile == latLonToTile(bounds[2], bounds[1], zoom)
        maxTile == latLonToTile(bounds[4], bounds[3], zoom)
    IN  Min(minTile.x, maxTile.x) .. Max(minTile.x, maxTile.x)

\* the sum of the values of a function
RECURSIVE SumOf(_)
SumOf(f) ==
    IF DOMAIN f = {} THEN 0
    ELSE LET x == CHOOSE y \in DOMAIN f : TRUE
         IN  f[x] + SumOf([y \in DOMAIN f \ {x} |-> f[y]])

\* generateTilesForZoom: what the calls updateTotalTiles(tilesFound, true) at
\* the end of each column add to total_tiles between two commits of the scan,
\* the second being the one that inserts the next rows of pending. Each call
\* adds tilesFound, the number of rows found in all columns so far
ColumnTotals(region, zoom, pending) ==
    LET all    == ScanRows(region, zoom)
        before == Len(all) - Len(pending)
        after  == before + Len(NextBatch(pending))
        \* the columns whose end the scan has passed when row number n is the
        \* last one committed
        Ended(n) == IF n = 0 THEN {}
                    ELSE { x \in ScanColumns(region, zoom) : x < all[n].x }
        ended  == IF Len(pending) <= BatchLimit THEN ScanColumns(region, zoom)
                  ELSE Ended(after)
        tilesFound(x) == Cardinality({ i \in 1..Len(all) : all[i].x <= x })
    IN  SumOf([x \in ended \ Ended(before) |-> tilesFound(x)])

\* generateTiles, "Insert any remaining tiles": the rows the flush after the
\* loop inserts
RemainingTilesDropped(tileBatch) == {}
RemainingTiles(tileBatch) == Range(tileBatch)

\* node-postgres hands COUNT(*) (a bigint) to the caller as a string
JsString(n) == [type |-> "string", val |-> n]
JsNumber(n) == [type |-> "number", val |-> n]
\* JavaScript ===: equal types and equal values
StrictEquals(a, b) == a.type = b.type /\ a.val = b.val

\* Database.getTileCount / SELECT COUNT(*) as count FROM tiles
getTileCount(store) == [count |-> JsString(Cardinality(store))]

----------------------------------------------------------------------------
(* State *)

\* before: currentOperation as the request found it
IdleReq == [pc |-> "idle", force |-> FALSE, dbOnly |-> FALSE, before |-> "null"]
\* total: totalTileCount of generateTiles; zeroing: the saveStats that
\* resetTiles called without awaiting it has not settled
IdleGen == [pc |-> "idle", zoom |-> minZoom, pending |-> <<>>, total |-> 0,
            zeroing |-> FALSE]
NoTile == [x |-> NULL, y |-> NULL, z |-> NULL]
IdleScr == [pc |-> "idle", tile |-> NoTile, processed |-> 0, errors |-> 0]

Resp(route, status, msg) == [route |-> route, status |-> status, msg |-> msg]
NoResponse == Resp("none", 0, "none")

LeastOf(S) == CHOOSE i \in S : \A j \in S : i <= j
FreeReqs == { h \in InitReqs : initReq[h].pc = "idle" }
FreeGens == { g \in GenRuns : gen[g].pc = "idle" }
FreeScrs == { r \in ScrapeRuns : scr[r].pc = "idle" }
ActiveGens == GenRuns \ FreeGens
ActiveScrs == ScrapeRuns \ FreeScrs

\* the store as a finished discovery run of an earlier process left it
RECURSIVE DiscoveredRows(_, _)
DiscoveredRows(region, zoom) ==
    IF zoom = minZoom THEN Range(ScanRows(region, minZoom))
    ELSE LET upTo == DiscoveredRows(region, zoom - 1)
         IN  upTo \cup UNION { Range(ChildRows(region, p, zoom)) :
                                 p \in getTilesByZoom(upTo, zoom - 1) }

\* ScraperController.settings of the constructor, with batchSize 1000,
\* minQueueSize 100 and updateInterval 24 scaled to the model
DefaultSettings ==
    [batchSize |-> 3, minQueueSize |-> 2, maxTilesToProcess |-> 0, updateInterval |-> 1,
     minZoom |-> minZoom, maxZoom |-> maxZoom, zoomLevels |-> <<>>]

\* TMSScraper.constructor: the scheduler's own defaults, which differ in
\* maxTilesToProcess (1000, one batch) and maxZoom (16) and have a requestDelay
DefaultRequestDelay == 500
ScraperDefaults ==
    [batchSize |-> 3, minQueueSize |-> 2, maxTilesToProcess |-> 3, updateInterval |-> 1,
     minZoom |-> minZoom, maxZoom |-> maxZoom + 1, zoomLevels |-> <<>>,
     requestDelay |-> DefaultRequestDelay]

\* the settings the scheduler knows
SettingKeys == DOMAIN ScraperDefaults

\* the spread with its operands exchanged: { ...P, ...S }
MergeUnder(S, P) ==
    [k \in (DOMAIN S) \cup (DOMAIN P) |-> IF k \in DOMAIN S THEN S[k] ELSE P[k]]

\* { ...S, ...P }
Merge(S, P) ==
    [k \in (DOMAIN S) \cup (DOMAIN P) |-> IF k \in DOMAIN P THEN P[k] ELSE S[k]]

\* JSON.stringify and JSON.parse, on numbers and arrays of numbers
stringify(value) == [json |-> value]
parse(text) == text.json

\* the settings table of a fresh database
EmptyTable == [k \in {} |-> stringify(0)]

\* Database.getSettings: every row of the table, its value parsed
getSettings(table) == [k \in DOMAIN table |-> parse(table[k])]

\* Database.saveSettings: one upsert per entry of the object, in a transaction
saveSettings(table, object) ==
    Merge(table, [k \in DOMAIN object |-> stringify(object[k])])

\* ScraperController.loadSettings: the rows of the table over the settings
\* in memory
loadSettings(memory, table) == Merge(memory, getSettings(table))

\* the table after the settings that differ from the controller's defaults
\* were saved
TableOf(S) ==
    [k \in { j \in DOMAIN S : j \notin DOMAIN DefaultSettings \/ S[j] # DefaultSettings[j] } |->
        stringify(S[k])]

\* no call of validateTileCoordinates yet
NoArg == [kind |-> "none", whole |-> 0]
NoCall == [x |-> NoArg, y |-> NoArg, z |-> NoArg, result |-> FALSE]

\* Database.init: retries = 5, and delay = 2000 ms counted in seconds
Retries == 5
FirstDelay == 2

\* a call of Database.init: its position, the locals retries and delay, the
\* connection attempts it has made and the delays it has waited
IdleCall == [pc |-> "idle", retries |-> Retries, delay |-> FirstDelay,
             attempts |-> 0, waits |-> <<>>]
\* Database.constructor: isInitialized = false, no call of init yet
NoDatabase == [isInitialized |-> FALSE, call |-> [c \in DbCalls |-> IdleCall]]

\* the stats row a discovery run and a scheduler run leave behind
StatsOf(store, content, history) ==
    IF store = {} THEN <<>>
    ELSE <<[total_tiles |-> Cardinality(store), processed_tiles |-> Cardinality(content),
            updated_tiles |-> Len(history)]>>

\* a stats object that names no counter (only times)
NoCounters == [k \in {} |-> 0]

\* INSERT INTO stats without an id: the stats table is created outside
\* database/init.sql. Its id is a sequence (saveStats finds the first row
\* under id 1, getStats orders by id) and the specification states no key or
\* uniqueness constraint for it, so that an INSERT into a table that holds a
\* row adds a second row
InsertIntoStats(table, row) == Append(table, row)

\* Database.saveStats(stats, append): with a row of id 1 in the table, an
\* UPDATE of that row that sets, or with append adds to, each counter the
\* object names; with none, an INSERT of a new row whose missing counters
\* are 0
saveStats(table, object, append) ==
    LET Given(k) == k \in DOMAIN object
        New(old, k) == IF Given(k)
                       THEN (IF append THEN old + object[k] ELSE object[k])
                       ELSE old
        Fresh(k) == IF Given(k) THEN object[k] ELSE 0
    IN  IF table # <<>>
        THEN [table EXCEPT ![1] =
                 [total_tiles |-> New(table[1].total_tiles, "totalTiles"),
                  processed_tiles |-> New(table[1].processed_tiles, "processedTiles"),
                  updated_tiles |-> New(table[1].updated_tiles, "updatedTiles")]]
        ELSE InsertIntoStats(table, [total_tiles |-> Fresh("totalTiles"),
                                     processed_tiles |-> Fresh("processedTiles"),
                                     updated_tiles |-> Fresh("updatedTiles")])

\* two saveStats calls that both read the table before either wrote it, so
\* that both take the branch of what they read
saveStatsBoth(table, first, second) ==
    IF table # <<>>
    THEN saveStats(saveStats(table, first, FALSE), second, FALSE)
    ELSE InsertIntoStats(saveStats(<<>>, first, FALSE),
                         saveStats(<<>>, second, FALSE)[1])

\* Database.getStats: SELECT * FROM stats ORDER BY id DESC LIMIT 1
getStats(table) == table[Len(table)]

\* ScraperController.constructor: the flags, the un-awaited init(), an empty
\* queue; the store is a fresh database
InitPersisted(regions, discovered, tables) ==
    /\ isInitialized = FALSE
    /\ isRunning = FALSE
    /\ currentOperation = "null"
    /\ ctorInit = "pending"
    /\ initReq = [h \in InitReqs |-> IdleReq]
    /\ gen = [g \in GenRuns |-> IdleGen]
    /\ scr = [r \in ScrapeRuns |-> IdleScr]
    /\ queue = <<>>
    /\ austriaData \in regions
    /\ tiles = (IF discovered THEN DiscoveredRows(austriaData, maxZoom) ELSE {})
    /\ pbf_tiles = {}
    /\ response = NoResponse
    /\ stopSeen = [r \in ScrapeRuns |-> FALSE]
    /\ lastDiscovered = <<>>
    /\ settings = ScraperDefaults
    /\ controllerSettings = DefaultSettings
    /\ settingsTable \in tables
    /\ validated = NoCall
    /\ database = NoDatabase
    /\ rejected = "none"
    /\ now = StartTime
    /\ pbf_tiles_history = <<>>
    /\ stats = StatsOf(tiles, pbf_tiles, pbf_tiles_history)

InitWith(regions, discovered) == InitPersisted(regions, discovered, {EmptyTable})

Init == InitWith({CtlRegion}, FALSE)

ctlVars == <<isInitialized, isRunning, currentOperation>>
storeVars == <<tiles, pbf_tiles, pbf_tiles_history>>

\* a rejected promise without a handler is raised as an uncaught exception
\* and ends the process (node 18 and 20 of the Dockerfiles): no handler of
\* this process runs any more
Exited == rejected # "none"

----------------------------------------------------------------------------
(* ScraperController.init, started by the constructor *)

\* scraper.init, tileGenerator.init and loadSettings succeeded
CtorInitDone ==
    /\ ~Exited
    /\ ctorInit = "pending"
    /\ ctorInit' = "done"
    /\ isInitialized' = TRUE       \* the guard !isInitialized was read at the call
    /\ settings' = Merge(settings, getSettings(settingsTable))
    /\ controllerSettings' = loadSettings(controllerSettings, settingsTable)
    /\ UNCHANGED <<isRunning, currentOperation, initReq, gen, scr, queue, austriaData,
                   tiles, pbf_tiles, stopSeen, lastDiscovered,
                   settingsTable, stats,
                   validated, database, now, pbf_tiles_history, rejected>>
    /\ response' = NoResponse

\* one of them threw: the catch of init(), then the .catch of the constructor
\* closes the pool and throws again
CtorInitFailed ==
    /\ ~Exited
    /\ ctorInit = "pending"
    /\ ctorInit' = "done"
    /\ isInitialized' = FALSE
    /\ rejected' = "init"
    /\ UNCHANGED <<isRunning, currentOperation, initReq, gen, scr, queue, austriaData,
                   tiles, pbf_tiles, stopSeen, lastDiscovered,
                   settings, controllerSettings, settingsTable, stats,
                   validated, database, now, pbf_tiles_history>>
    /\ response' = NoResponse

----------------------------------------------------------------------------
(* POST /api/init *)

\* the request arrives: the guard on 'generating_tiles', then
\* currentOperation = 'initializing' and the await of scraper.init()
InitRequest(force, dbOnly) ==
    /\ ~Exited
    /\ IF currentOperation = "generating_tiles"
       THEN /\ response' = Resp("init", 400, "Tile generation already in progress")
            /\ UNCHANGED <<ctlVars, initReq>>
       ELSE /\ FreeReqs # {}
            /\ currentOperation' = "initializing"
            /\ initReq' = [initReq EXCEPT ![LeastOf(FreeReqs)] =
                              [pc |-> "init", force |-> force, dbOnly |-> dbOnly,
                               before |-> currentOperation]]
            /\ response' = NoResponse
            /\ UNCHANGED <<isInitialized, isRunning>>
    /\ UNCHANGED <<ctorInit, gen, scr, queue, austriaData, tiles, pbf_tiles, stopSeen,
                   lastDiscovered,
                   settings, controllerSettings, settingsTable, stats,
                   validated, database, now, pbf_tiles_history, rejected>>

\* the catch block of the route
InitCatch(h) ==
    /\ currentOperation' = "null"
    /\ isInitialized' = FALSE
    /\ response' = Resp("init", 500, "error")
    /\ initReq' = [initReq EXCEPT ![h] = IdleReq]
    /\ UNCHANGED isRunning

\* scraper.init() resolved: database_only answers here, otherwise the tile
\* count is queried
InitScraperReady(h) ==
    /\ ~Exited
    /\ initReq[h].pc = "init"
    /\ IF initReq[h].dbOnly
       THEN /\ isInitialized' = TRUE
            /\ currentOperation' = "null"
            /\ response' = Resp("init", 200, "Database initialized successfully")
            /\ initReq' = [initReq EXCEPT ![h] = IdleReq]
            /\ UNCHANGED isRunning
       ELSE /\ initReq' = [initReq EXCEPT ![h].pc = "count"]
            /\ response' = NoResponse
            /\ UNCHANGED ctlVars
    /\ settings' = Merge(settings, getSettings(settingsTable))
    /\ UNCHANGED <<ctorInit, gen, scr, queue, austriaData, tiles, pbf_tiles, stopSeen,
                   lastDiscovered,
                   controllerSettings, settingsTable, stats,
                   validated, database, now, pbf_tiles_history, rejected>>

\* scraper.init() or the count query threw
InitFailed(h) ==
    /\ ~Exited
    /\ initReq[h].pc \in {"init", "count"}
    /\ InitCatch(h)
    /\ UNCHANGED <<ctorInit, gen, scr, queue, austriaData, tiles, pbf_tiles, stopSeen,
                   lastDiscovered,
                   settings, controllerSettings, settingsTable, stats,
                   validated, database, now, pbf_tiles_history, rejected>>

\* generateTilesInBackground up to its first await: the operation is set and
\* resetTiles is called
StartGeneration(g) ==
    /\ gen' = [gen EXCEPT ![g] = [IdleGen EXCEPT !.pc = "reset", !.zeroing = TRUE]]
    /\ currentOperation' = "generating_tiles"

\* the decision of the route on the tile count and the force flag
ShouldGenerate(tileCount, force) ==
    StrictEquals(tileCount.count, JsNumber(0)) \/ force

\* the count query resolved: tile generation starts in the background, or the
\* request is refused because tiles exist
InitDecide(h) ==
    /\ ~Exited
    /\ initReq[h].pc = "count"
    /\ IF ShouldGenerate(getTileCount(tiles), initReq[h].force)
       THEN /\ FreeGens # {}
            /\ StartGeneration(LeastOf(FreeGens))
            /\ response' = Resp("init", 200, "Initialization started")
            /\ UNCHANGED <<isInitialized, isRunning>>
       ELSE /\ response' = Resp("init", 400, "Tiles already exist")
            /\ UNCHANGED <<ctlVars, gen>>
    /\ initReq' = [initReq EXCEPT ![h] = IdleReq]
    /\ UNCHANGED <<ctorInit, scr, queue, austriaData, tiles, pbf_tiles, stopSeen,
                   lastDiscovered,
                   settings, controllerSettings, settingsTable, stats,
                   validated, database, now, pbf_tiles_history, rejected>>

\* as InitDecide, but the getStatus() awaited for the response body throws
\* and the catch block runs
InitDecideStatusFailed(h) ==
    /\ ~Exited
    /\ initReq[h].pc = "count"
    /\ IF ShouldGenerate(getTileCount(tiles), initReq[h].force)
       THEN /\ FreeGens # {}
            /\ gen' = [gen EXCEPT ![LeastOf(FreeGens)] =
                          [IdleGen EXCEPT !.pc = "reset", !.zeroing = TRUE]]
       ELSE UNCHANGED gen
    /\ InitCatch(h)
    /\ UNCHANGED <<ctorInit, scr, queue, austriaData, tiles, pbf_tiles, stopSeen,
                   lastDiscovered,
                   settings, controllerSettings, settingsTable, stats,
                   validated, database, now, pbf_tiles_history, rejected>>

----------------------------------------------------------------------------
(* ScraperController.generateTilesInBackground and TileGenerator.generateTiles *)

\* the object of the saveStats that resetTiles calls
ZeroTotal == [totalTiles |-> 0]

\* resetTiles resolved (DELETE FROM tiles) after the saveStats it had called
\* without awaiting it; then updateStats({initializationStartTime}) resolved,
\* the geometry is loaded, and generateTilesForZoom(minZoom) has computed the
\* rows of its scan
GenReset(g) ==
    /\ ~Exited
    /\ gen[g].pc = "reset"
    /\ tiles' = resetTiles(tiles)
    /\ gen' = [gen EXCEPT ![g] =
                  [@ EXCEPT !.pc = "scan", !.zeroing = FALSE,
                            !.pending = ScanRows(austriaData, minZoom)]]
    /\ stats' = saveStats(saveStats(stats, ZeroTotal, FALSE), NoCounters, FALSE)
    /\ UNCHANGED <<ctlVars, ctorInit, initReq, scr, queue, austriaData, pbf_tiles,
                   stopSeen, lastDiscovered,
                   settings, controllerSettings, settingsTable,
                   validated, database, now, pbf_tiles_history, rejected>>
    /\ response' = NoResponse

\* resetTiles resolved (DELETE FROM tiles) while the saveStats it had called
\* without awaiting it is still open
GenResetFirst(g) ==
    /\ ~Exited
    /\ gen[g].pc = "reset"
    /\ tiles' = resetTiles(tiles)
    /\ gen' = [gen EXCEPT ![g].pc = "start"]
    /\ UNCHANGED stats
    /\ UNCHANGED <<ctlVars, ctorInit, initReq, scr, queue, austriaData, pbf_tiles,
                   stopSeen, lastDiscovered,
                   settings, controllerSettings, settingsTable,
                   validated, database, now, pbf_tiles_history, rejected>>
    /\ response' = NoResponse

\* after GenResetFirst: updateStats({initializationStartTime}) resolved, the
\* geometry is loaded, and generateTilesForZoom(minZoom) has computed the rows
\* of its scan. The saveStats of resetTiles has settled too: before
\* updateStats read the table, or after both had read it
GenStart(g) ==
    /\ ~Exited
    /\ gen[g].pc = "start"
    /\ gen' = [gen EXCEPT ![g] =
                  [@ EXCEPT !.pc = "scan", !.zeroing = FALSE,
                            !.pending = ScanRows(austriaData, minZoom)]]
    /\ stats' \in {saveStats(saveStats(stats, ZeroTotal, FALSE), NoCounters, FALSE),
                   saveStatsBoth(stats, ZeroTotal, NoCounters)}
    /\ UNCHANGED <<ctlVars, ctorInit, initReq, scr, queue, austriaData, tiles, pbf_tiles,
                   stopSeen, lastDiscovered,
                   settings, controllerSettings, settingsTable,
                   validated, database, now, pbf_tiles_history, rejected>>
    /\ response' = NoResponse

\* the saveStats of resetTiles threw: its promise is rejected, and resetTiles
\* has put no handler on it
GenZeroingFailed(g) ==
    /\ ~Exited
    /\ gen[g].zeroing
    /\ gen' = [gen EXCEPT ![g].zeroing = FALSE]
    /\ rejected' = "saveStats"
    /\ UNCHANGED <<ctlVars, ctorInit, initReq, scr, queue, austriaData, tiles, pbf_tiles,
                   stopSeen, lastDiscovered,
                   settings, controllerSettings, settingsTable, stats,
                   validated, database, now, pbf_tiles_history>>
    /\ response' = NoResponse

\* generateTilesForZoom: one COMMIT of the scan's transaction, after every
\* BatchLimit-th row found and at the end of the scan
GenScanCommit(g) ==
    /\ ~Exited
    /\ gen[g].pc = "scan"
    /\ tiles' = InsertOnConflictDoNothing(tiles, Range(NextBatch(gen[g].pending)))
    /\ gen' = [gen EXCEPT ![g] =
                  IF Len(gen[g].pending) <= BatchLimit
                  THEN [@ EXCEPT !.pc = "zoomDone", !.pending = <<>>,
                                 !.total = Len(ScanRows(austriaData, minZoom))]
                  ELSE [@ EXCEPT !.pending = AfterBatch(gen[g].pending)]]
    /\ stats' = saveStats(stats,
                    [totalTiles |-> ColumnTotals(austriaData, minZoom, gen[g].pending)],
                    TRUE)
    /\ UNCHANGED <<ctlVars, ctorInit, initReq, scr, queue, austriaData, pbf_tiles,
                   stopSeen, lastDiscovered,
                   settings, controllerSettings, settingsTable,
                   validated, database, now, pbf_tiles_history, rejected>>
    /\ response' = NoResponse

\* generateTiles: the next zoom level starts with getTilesByZoom(zoom - 1),
\* whose rows come in any order
GenNextZoom(g) ==
    /\ ~Exited
    /\ gen[g].pc = "zoomDone"
    /\ gen[g].zoom < maxZoom
    /\ \E parentTiles \in RowOrders(getTilesByZoom(tiles, gen[g].zoom)) :
          gen' = [gen EXCEPT ![g] =
                     [@ EXCEPT !.pc = "batch", !.zoom = gen[g].zoom + 1,
                               !.pending = ChildRowsOfAll(austriaData, parentTiles,
                                                          gen[g].zoom + 1)]]
    /\ UNCHANGED <<ctlVars, ctorInit, initReq, scr, queue, austriaData, tiles, pbf_tiles,
                   stopSeen, lastDiscovered,
                   settings, controllerSettings, settingsTable, stats,
                   validated, database, now, pbf_tiles_history, rejected>>
    /\ response' = NoResponse

\* generateTiles: batchInsertTiles of a full batch inside the loop, or of the
\* remaining tiles after it
GenBatchInsert(g) ==
    /\ ~Exited
    /\ gen[g].pc = "batch"
    /\ IF Len(gen[g].pending) >= BatchLimit
       THEN /\ tiles' = InsertOnConflictDoNothing(tiles, Range(NextBatch(gen[g].pending)))
            /\ gen' = [gen EXCEPT ![g] =
                          [@ EXCEPT !.pending = AfterBatch(gen[g].pending),
                                    !.total = gen[g].total + BatchLimit]]
       ELSE /\ tiles' = InsertOnConflictDoNothing(tiles, RemainingTiles(gen[g].pending))
            /\ gen' = [gen EXCEPT ![g] =
                          [@ EXCEPT !.pc = "zoomDone", !.pending = <<>>,
                                    !.total = gen[g].total + Len(gen[g].pending)]]
    /\ stats' = IF gen[g].pending = <<>> THEN stats
                ELSE saveStats(stats, [totalTiles |-> gen'[g].total], FALSE)
    /\ UNCHANGED <<ctlVars, ctorInit, initReq, scr, queue, austriaData, pbf_tiles,
                   stopSeen, lastDiscovered,
                   settings, controllerSettings, settingsTable,
                   validated, database, now, pbf_tiles_history, rejected>>
    /\ response' = NoResponse

\* generateTiles returned: the operation is cleared and the controller is
\* initialized
GenFinish(g) ==
    /\ ~Exited
    /\ gen[g].pc = "zoomDone"
    /\ gen[g].zoom = maxZoom
    /\ gen' = [gen EXCEPT ![g] = IdleGen]
    /\ currentOperation' = "null"
    /\ isInitialized' = TRUE
    /\ lastDiscovered' = <<tiles>>
    /\ stats' = saveStats(stats, [totalTiles |-> gen[g].total], FALSE)
    /\ UNCHANGED <<isRunning, ctorInit, initReq, scr, queue, austriaData, tiles,
                   pbf_tiles, stopSeen, settings, controllerSettings, settingsTable,
                   validated, database, now, pbf_tiles_history, rejected>>
    /\ response' = NoResponse

\* any await of the run threw (a store or geometry failure) after `done` rows
\* of the open transaction were inserted: the transaction is rolled back
\* (batchInsertTiles, generateTilesForZoom) and the catch block of
\* generateTilesInBackground runs; it throws again, and the route has put no
\* handler on tileGenerationPromise
GenFailed(g) ==
    /\ ~Exited
    /\ gen[g].pc # "idle"
    /\ \E done \in 0..Len(NextBatch(gen[g].pending)) :
          tiles' = Rollback(tiles,
                            InsertOnConflictDoNothing(tiles,
                                Range(SubSeq(gen[g].pending, 1, done))))
    /\ gen' = [gen EXCEPT ![g] = IdleGen]
    /\ currentOperation' = "null"
    /\ isInitialized' = FALSE
    /\ rejected' = "generateTilesInBackground"
    /\ UNCHANGED <<isRunning, ctorInit, initReq, scr, queue, austriaData,
                   pbf_tiles, stopSeen, lastDiscovered,
                   settings, controllerSettings, settingsTable, stats,
                   validated, database, now, pbf_tiles_history>>
    /\ response' = NoResponse

----------------------------------------------------------------------------
(* PriorityQueue *)

Infinity == [inf |-> TRUE, val |-> 0]

\* the sign of b.priority - a.priority, the comparator of enqueue's sort;
\* Infinity - Infinity is NaN, which the sort takes as 0
CompareFnAscending(a, b) ==
    IF a.priority.inf /\ b.priority.inf THEN 0
    ELSE IF b.priority.inf THEN -1
    ELSE IF a.priority.inf THEN 1
    ELSE IF b.priority.val > a.priority.val THEN -1
    ELSE IF b.priority.val < a.priority.val THEN 1
    ELSE 0
CompareFn(a, b) ==
    IF a.priority.inf /\ b.priority.inf THEN 0
    ELSE IF b.priority.inf THEN 1
    ELSE IF a.priority.inf THEN -1
    ELSE IF b.priority.val > a.priority.val THEN 1
    ELSE IF b.priority.val < a.priority.val THEN -1
    ELSE 0

\* PriorityQueue.enqueue: push, then a stable sort, higher priority first
enqueue(q, tile, priority) ==
    LET item == [tile |-> tile, priority |-> priority]
        ahead == { i \in 1..Len(q) : CompareFn(q[i], item) <= 0 }
        k == IF ahead = {} THEN 0 ELSE CHOOSE i \in ahead : \A j \in ahead : j <= i
    IN  SubSeq(q, 1, k) \o <<item>> \o SubSeq(q, k + 1, Len(q))

\* PriorityQueue.dequeue: shift
dequeue(q) == [item |-> Head(q), rest |-> Tail(q)]

isEmpty(q) == Len(q) = 0
size(q) == Len(q)

----------------------------------------------------------------------------
(* TMSScraper *)

Contents == 1..MaxContent

\* getPbfHash: the SHA-256 digest of the bytes; digests of different bodies
\* differ, and no digest is a body or NULL
getPbfHash(data) == 100 + data

\* a JavaScript number: finite, or Infinity
Fin(n) == [inf |-> FALSE, val |-> n]
JsTimes(a, n) == IF a.inf THEN Infinity ELSE Fin(a.val * n)
JsPlus(a, n) == IF a.inf THEN Infinity ELSE Fin(a.val + n)

\* loadTilesIntoQueue: zoomLevels?.[0] || maxZoom
zoomLevel == IF Len(settings.zoomLevels) > 0 /\ settings.zoomLevels[1] # 0
             THEN settings.zoomLevels[1] ELSE settings.maxZoom

\* '1970-01-01'::timestamp, before every time of the model
Epoch == -1000
Coalesce(last_modified) == IF last_modified = NULL THEN Epoch ELSE last_modified

\* tiles t LEFT JOIN pbf_tiles p ON (x, y, z): the selected columns of one row
JoinedRow(t, pbf) ==
    IF \E p \in pbf : Key(p) = Key(t)
    THEN LET p == CHOOSE q \in pbf : Key(q) = Key(t)
         IN  [x |-> t.x, y |-> t.y, z |-> t.z,
              last_modified |-> p.last_modified, hash |-> p.hash]
    ELSE [x |-> t.x, y |-> t.y, z |-> t.z, last_modified |-> NULL, hash |-> NULL]

\* the WHERE clause without its test of last_modified
NeedsUpdateAtAnyAge(row) ==
    row.z = zoomLevel

\* the WHERE clause: never fetched, or last fetched more than updateInterval
\* hours ago, and at the zoom level
NeedsUpdate(row) ==
    /\ row.last_modified = NULL \/ row.last_modified < now - settings.updateInterval
    /\ row.z = zoomLevel

\* loadTilesIntoQueue: the results the query can return: ORDER BY
\* COALESCE(last_modified, 1970) ASC, rows of equal last_modified in any
\* order, LIMIT batchSize
TilesToUpdate(store, pbf) ==
    LET due == { row \in { JoinedRow(t, pbf) : t \in store } : NeedsUpdate(row) }
        ordered == { rows \in RowOrders(due) :
                       \A i, j \in 1..Len(rows) :
                          i < j => Coalesce(rows[i].last_modified)
                                     <= Coalesce(rows[j].last_modified) }
    IN  { SubSeq(rows, 1, Min(settings.batchSize, Len(rows))) : rows \in ordered }

\* age in hours, Infinity when never fetched;
\* priority = age * 100 + (last_modified ? 0 : 10000); the loop over the rows
\* has no await, and the clock it reads per row is taken at the hour of the pass
Age(tile) == IF tile.last_modified # NULL THEN Fin(now - tile.last_modified) ELSE Infinity
PriorityOfNewestFirst(tile) ==
    JsPlus(JsTimes(Age(tile), -100), IF tile.last_modified # NULL THEN 0 ELSE 10000)
PriorityOf(tile) ==
    JsPlus(JsTimes(Age(tile), 100), IF tile.last_modified # NULL THEN 0 ELSE 10000)

RECURSIVE EnqueueAll(_, _)
EnqueueAll(q, rows) ==
    IF rows = <<>> THEN q
    ELSE EnqueueAll(enqueue(q, Head(rows), PriorityOf(Head(rows))), Tail(rows))

\* loadTilesIntoQueue: every row of the result is enqueued with its priority
loadTilesIntoQueue(q, rows) == EnqueueAll(q, rows)

\* the two tables a tile's transaction writes
Db == [pbf_tiles |-> pbf_tiles, pbf_tiles_history |-> pbf_tiles_history]

ContentRow(tile, data) ==
    [x |-> tile.x, y |-> tile.y, z |-> tile.z, data |-> data, hash |-> getPbfHash(data)]

\* "Only update if the tile is new or different"
NeedsWrite(tile, data) == tile.hash = NULL \/ tile.hash # getPbfHash(data)

\* the statements between BEGIN and COMMIT: the history insert if the work
\* item carries a hash, then the upsert of pbf_tiles
TxnStatements(tile, data) ==
    (IF tile.hash # NULL THEN <<[table |-> "pbf_tiles_history", row |-> ContentRow(tile, data)]>>
     ELSE <<>>)
    \o <<[table |-> "pbf_tiles", row |-> ContentRow(tile, data)]>>

\* a history insert that replaces the rows of the table
ApplyStatementReplacing(db, stmt) ==
    IF stmt.table = "pbf_tiles_history"
    THEN [db EXCEPT !.pbf_tiles_history = <<stmt.row>>]
    ELSE [db EXCEPT !.pbf_tiles =
             { p \in @ : Key(p) # Key(stmt.row) }
               \cup { [x |-> stmt.row.x, y |-> stmt.row.y, z |-> stmt.row.z,
                       data |-> stmt.row.data, hash |-> stmt.row.hash,
                       last_modified |-> now] }]

\* INSERT INTO pbf_tiles_history, and INSERT INTO pbf_tiles ... ON CONFLICT
\* (x, y, z) DO UPDATE SET data, hash, last_modified = CURRENT_TIMESTAMP
ApplyStatement(db, stmt) ==
    IF stmt.table = "pbf_tiles_history"
    THEN [db EXCEPT !.pbf_tiles_history = Append(@, stmt.row)]
    ELSE [db EXCEPT !.pbf_tiles =
             { p \in @ : Key(p) # Key(stmt.row) }
               \cup { [x |-> stmt.row.x, y |-> stmt.row.y, z |-> stmt.row.z,
                       data |-> stmt.row.data, hash |-> stmt.row.hash,
                       last_modified |-> now] }]

RECURSIVE ApplyAll(_, _)
ApplyAll(db, stmts) ==
    IF stmts = <<>> THEN db ELSE ApplyAll(ApplyStatement(db, Head(stmts)), Tail(stmts))

\* an error that ends the loop in place of continuing it
AfterTileErrorFatal(run) ==
    [run EXCEPT !.pc = "final", !.tile = NoTile, !.errors = run.errors + 1]

\* the catch block of the loop, and the continue after a null fetch
AfterTileError(run) ==
    [run EXCEPT !.pc = "head", !.tile = NoTile, !.errors = run.errors + 1]

\* the promise of scrapePbfTiles settles: the .then and .catch of startScraping
ScrSettle(r) ==
    /\ scr' = [scr EXCEPT ![r] = IdleScr]
    /\ stopSeen' = [stopSeen EXCEPT ![r] = FALSE]
    /\ isRunning' = FALSE
    /\ currentOperation' = "null"
    /\ UNCHANGED isInitialized

\* what a scheduler step leaves alone besides the flags, its own record, the
\* queue and the two content tables
ScrStatsFrame ==
    /\ ~Exited
    /\ UNCHANGED <<ctorInit, initReq, gen, austriaData, tiles, lastDiscovered, settings, controllerSettings, settingsTable,
                   validated, database, now,
                   rejected>>
    /\ response' = NoResponse

\* the same for a step that calls no saveStats
ScrFrame ==
    /\ ScrStatsFrame
    /\ UNCHANGED stats

\* the same for a step that rejects the promise of scrapePbfTiles: the .catch
\* of startScraping clears the flags and throws again
ScrRejectFrame ==
    /\ ~Exited
    /\ rejected' = "scrapePbfTiles"
    /\ UNCHANGED <<ctorInit, initReq, gen, austriaData, tiles, lastDiscovered, settings, controllerSettings, settingsTable, stats,
                   validated, database, now>>
    /\ response' = NoResponse

\* scrapePbfTiles: the first loadTilesIntoQueue resolved
ScrLoaded(r) ==
    /\ scr[r].pc = "loading"
    /\ \E rows \in TilesToUpdate(tiles, pbf_tiles) :
          queue' = loadTilesIntoQueue(queue, rows)
    /\ scr' = [scr EXCEPT ![r].pc = "head"]
    /\ UNCHANGED <<ctlVars, pbf_tiles, pbf_tiles_history, stopSeen>>
    /\ ScrFrame

\* the first loadTilesIntoQueue threw: scrapePbfTiles rejects
ScrLoadFailed(r) ==
    /\ scr[r].pc = "loading"
    /\ ScrSettle(r)
    /\ UNCHANGED <<queue, pbf_tiles, pbf_tiles_history>>
    /\ ScrRejectFrame

\* the loop head with the cap compared by > in place of >=
ScrNextLateCap(r) ==
    /\ scr[r].pc = "head"
    /\ IF isEmpty(queue)
          \/ (settings.maxTilesToProcess > 0
                /\ scr[r].processed > settings.maxTilesToProcess)
       THEN /\ scr' = [scr EXCEPT ![r].pc = "final"]
            /\ UNCHANGED queue
       ELSE /\ scr[r].processed < MaxProcessed
            /\ scr[r].errors < MaxErrors
            /\ scr' = [scr EXCEPT ![r] = [@ EXCEPT !.pc = "fetching",
                                                 !.tile = dequeue(queue).item.tile]]
            /\ queue' = dequeue(queue).rest
    /\ UNCHANGED <<ctlVars, pbf_tiles, pbf_tiles_history, stopSeen>>
    /\ ScrFrame

\* the head of the while loop: leave on an empty queue or on the cap, else
\* dequeue and start the delay and the fetch
ScrNext(r) ==
    /\ scr[r].pc = "head"
    /\ IF isEmpty(queue)
          \/ (settings.maxTilesToProcess > 0
                /\ scr[r].processed >= settings.maxTilesToProcess)
       THEN /\ scr' = [scr EXCEPT ![r].pc = "final"]
            /\ UNCHANGED queue
       ELSE /\ scr[r].processed < MaxProcessed
            /\ scr[r].errors < MaxErrors
            /\ scr' = [scr EXCEPT ![r] = [@ EXCEPT !.pc = "fetching",
                                                 !.tile = dequeue(queue).item.tile]]
            /\ queue' = dequeue(queue).rest
    /\ UNCHANGED <<ctlVars, pbf_tiles, pbf_tiles_history, stopSeen>>
    /\ ScrFrame

\* fetchPbfTile returned null (a non-success response or a transport error):
\* errors++ and continue
ScrTileFailed(r) ==
    /\ scr[r].pc = "fetching"
    /\ scr' = [scr EXCEPT ![r] = AfterTileError(scr[r])]
    /\ UNCHANGED <<ctlVars, queue, pbf_tiles, pbf_tiles_history, stopSeen>>
    /\ ScrFrame

\* the fetch returned data that has to be written, and connect, BEGIN, one of
\* the statements or COMMIT threw after `done` statements: ROLLBACK, and the
\* catch block of the loop counts the error
ScrTxnFailed(r, data, done) ==
    /\ scr[r].pc = "fetching"
    /\ NeedsWrite(scr[r].tile, data)
    /\ done \in 0..Len(TxnStatements(scr[r].tile, data))
    /\ LET written == ApplyAll(Db, SubSeq(TxnStatements(scr[r].tile, data), 1, done))
           db == Rollback(Db, written)
       IN  /\ pbf_tiles' = db.pbf_tiles
           /\ pbf_tiles_history' = db.pbf_tiles_history
    /\ scr' = [scr EXCEPT ![r] = AfterTileError(scr[r])]
    /\ UNCHANGED <<ctlVars, queue, stopSeen>>
    /\ ScrFrame

\* the tables after the fetch returned data: the committed transaction if the
\* tile is new or different, otherwise nothing is written
AfterFetch(tile, data) ==
    IF NeedsWrite(tile, data)
    THEN Commit(Db, ApplyAll(Db, TxnStatements(tile, data)))
    ELSE Db

\* the fetch returned data and any write committed: processed++; on every
\* minQueueSize-th tile the progress is saved, and a queue shorter than
\* minQueueSize is reloaded
ScrTileDone(r, data) ==
    /\ scr[r].pc = "fetching"
    /\ pbf_tiles' = AfterFetch(scr[r].tile, data).pbf_tiles
    /\ pbf_tiles_history' = AfterFetch(scr[r].tile, data).pbf_tiles_history
    /\ scr' = [scr EXCEPT ![r] =
                  [@ EXCEPT !.pc = IF (scr[r].processed + 1) % settings.minQueueSize = 0
                                      /\ size(queue) < settings.minQueueSize
                                   THEN "reloading" ELSE "head",
                            !.tile = NoTile,
                            !.processed = scr[r].processed + 1]]
    /\ stats' = IF (scr[r].processed + 1) % settings.minQueueSize = 0
                THEN saveStats(stats, [processedTiles |-> settings.minQueueSize], TRUE)
                ELSE stats
    /\ UNCHANGED <<ctlVars, queue, stopSeen>>
    /\ ScrStatsFrame

\* as ScrTileDone on a minQueueSize-th tile, but saveStats threw: the catch
\* block of the loop counts an error and the queue is not reloaded
ScrSaveStatsFailed(r, data) ==
    /\ scr[r].pc = "fetching"
    /\ (scr[r].processed + 1) % settings.minQueueSize = 0
    /\ pbf_tiles' = AfterFetch(scr[r].tile, data).pbf_tiles
    /\ pbf_tiles_history' = AfterFetch(scr[r].tile, data).pbf_tiles_history
    /\ scr' = [scr EXCEPT ![r] =
                  [@ EXCEPT !.pc = "head", !.tile = NoTile,
                            !.processed = scr[r].processed + 1,
                            !.errors = scr[r].errors + 1]]
    /\ UNCHANGED <<ctlVars, queue, stopSeen>>
    /\ ScrFrame

\* the loadTilesIntoQueue inside the loop resolved
ScrReloaded(r) ==
    /\ scr[r].pc = "reloading"
    /\ \E rows \in TilesToUpdate(tiles, pbf_tiles) :
          queue' = loadTilesIntoQueue(queue, rows)
    /\ scr' = [scr EXCEPT ![r].pc = "head"]
    /\ UNCHANGED <<ctlVars, pbf_tiles, pbf_tiles_history, stopSeen>>
    /\ ScrFrame

\* it threw: caught by the loop's catch, errors++
ScrReloadFailed(r) ==
    /\ scr[r].pc = "reloading"
    /\ scr' = [scr EXCEPT ![r] = [@ EXCEPT !.pc = "head", !.errors = scr[r].errors + 1]]
    /\ UNCHANGED <<ctlVars, queue, pbf_tiles, pbf_tiles_history, stopSeen>>
    /\ ScrFrame

\* the object of the final saveStats, with the in-memory counter of the run
\* in place of the row count
FinalStatsFromCounters(r) ==
    [processedTiles |-> scr[r].processed, updatedTiles |-> Len(pbf_tiles_history)]
\* scrapePbfTiles, "Final stats update": the object of the final saveStats,
\* from the counts of the two content tables
FinalStats(r) ==
    [processedTiles |-> Cardinality(pbf_tiles), updatedTiles |-> Len(pbf_tiles_history)]

\* the final counts are read and saved, and the promise resolves
ScrFinish(r) ==
    /\ scr[r].pc = "final"
    /\ ScrSettle(r)
    /\ stats' = saveStats(stats, FinalStats(r), FALSE)
    /\ UNCHANGED <<queue, pbf_tiles, pbf_tiles_history>>
    /\ ScrStatsFrame

\* the count query or the final saveStats threw
ScrFinishFailed(r) ==
    /\ scr[r].pc = "final"
    /\ ScrSettle(r)
    /\ UNCHANGED <<queue, pbf_tiles, pbf_tiles_history>>
    /\ ScrRejectFrame

\* an hour passes
Tick ==
    /\ now < MaxTime
    /\ now' = now + 1
    /\ response' = NoResponse
    /\ UNCHANGED <<ctlVars, ctorInit, initReq, gen, scr, queue, austriaData, tiles,
                   pbf_tiles, stopSeen, lastDiscovered, settings, controllerSettings,
                   settingsTable, stats, validated, database, pbf_tiles_history,
                   rejected>>

----------------------------------------------------------------------------
(* POST /api/scrape/start and POST /api/scrape/stop *)

\* ScraperController.startScraping, entered with isRunning false: the flags,
\* the settings, and scrapePbfTiles up to its first await
startScraping(r) ==
    /\ isRunning' = TRUE
    /\ currentOperation' = "scraping"
    /\ scr' = [scr EXCEPT ![r] = [pc |-> "loading", tile |-> NoTile, processed |-> 0,
                                  errors |-> 0]]
    /\ settings' = controllerSettings
    /\ UNCHANGED isInitialized

StartRequest ==
    /\ ~Exited
    /\ IF ~isInitialized
       THEN /\ response' = Resp("start", 400, "Scraper must be initialized first")
            /\ UNCHANGED <<ctlVars, scr, settings>>
       ELSE IF isRunning
       THEN /\ response' = Resp("start", 400, "Scraper is already running")
            /\ UNCHANGED <<ctlVars, scr, settings>>
       ELSE /\ FreeScrs # {}
            /\ startScraping(LeastOf(FreeScrs))
            /\ response' = Resp("start", 200, "Scraping started successfully")
    /\ UNCHANGED <<ctorInit, initReq, gen, queue, austriaData, tiles, pbf_tiles, stopSeen,
                   lastDiscovered,
                   controllerSettings, settingsTable, stats,
                   validated, database, now, pbf_tiles_history, rejected>>

StopRequest ==
    /\ ~Exited
    /\ IF ~isRunning
       THEN /\ response' = Resp("stop", 400, "Scraper is not running")
            /\ UNCHANGED <<isRunning, stopSeen>>
       ELSE /\ isRunning' = FALSE
            /\ response' = Resp("stop", 200, "Scraper will stop after current tile")
            /\ stopSeen' = [r \in ScrapeRuns |->
                             stopSeen[r] \/ (scr[r].pc # "idle" /\ size(queue) > 1)]
    /\ UNCHANGED <<isInitialized, currentOperation, ctorInit, initReq, gen, scr, queue,
                   austriaData, tiles, pbf_tiles, lastDiscovered,
                   settings, controllerSettings, settingsTable, stats,
                   validated, database, now, pbf_tiles_history, rejected>>

----------------------------------------------------------------------------
(* Specifications *)

\* the steps of a discovery run in which the saveStats of resetTiles is still
\* open when its DELETE has resolved
GenZeroingStep(g) ==
    \/ GenResetFirst(g)
    \/ GenStart(g)
    \/ GenZeroingFailed(g)

\* the steps of a discovery run whose resetTiles has its saveStats settled
\* before its DELETE
GenStep(g) ==
    \/ GenReset(g)
    \/ GenScanCommit(g)
    \/ GenNextZoom(g)
    \/ GenBatchInsert(g)
    \/ GenFinish(g)
    \/ GenFailed(g)

InitStep(h) ==
    \/ InitScraperReady(h)
    \/ InitFailed(h)
    \/ InitDecide(h)
    \/ InitDecideStatusFailed(h)

ScrStep(r) ==
    \/ ScrLoaded(r)
    \/ ScrLoadFailed(r)
    \/ ScrNext(r)
    \/ ScrTileFailed(r)
    \/ \E data \in Contents :
          \/ \E done \in 0..2 : ScrTxnFailed(r, data, done)
          \/ ScrTileDone(r, data)
          \/ ScrSaveStatsFailed(r, data)
    \/ ScrReloaded(r)
    \/ ScrReloadFailed(r)
    \/ ScrFinish(r)
    \/ ScrFinishFailed(r)

\* an initialize request that finds no other POST /api/init open and, unless
\* it is refused, no discovery run pending
InitRequestAlone(force, dbOnly) ==
    /\ FreeReqs = InitReqs
    /\ ActiveGens = {} \/ currentOperation = "generating_tiles"
    /\ InitRequest(force, dbOnly)

\* a start request that, unless it is refused, finds no scheduler run pending
StartRequestAlone ==
    /\ ActiveScrs = {} \/ isRunning \/ ~isInitialized
    /\ StartRequest

\* the controller: one initialize request, one discovery run and one scheduler
\* run at a time, stop requests at any time, every interleaving of their steps
Next ==
    \/ CtorInitDone
    \/ CtorInitFailed
    \/ \E force \in BOOLEAN, dbOnly \in BOOLEAN : InitRequestAlone(force, dbOnly)
    \/ \E h \in InitReqs : InitStep(h)
    \/ \E g \in GenRuns : GenStep(g)
    \/ \E g \in GenRuns : GenZeroingStep(g)
    \/ StartRequestAlone
    \/ StopRequest
    \/ \E r \in ScrapeRuns : ScrStep(r)

Spec == Init /\ [][Next]_vars

\* initialize requests at any time, no scheduler run; every saveStats of
\* resetTiles settles before its DELETE
NextInit ==
    \/ CtorInitDone
    \/ CtorInitFailed
    \/ \E force \in BOOLEAN, dbOnly \in BOOLEAN : InitRequest(force, dbOnly)
    \/ \E h \in InitReqs : InitStep(h)
    \/ \E g \in GenRuns : GenStep(g)

SpecInit == Init /\ [][NextInit]_vars

\* start and stop requests at any time over a discovered store, no initialize
\* request
InitDiscovered == InitWith({CtlRegion}, TRUE)

NextScrape ==
    \/ CtorInitDone
    \/ CtorInitFailed
    \/ StartRequest
    \/ StopRequest
    \/ \E r \in ScrapeRuns : ScrStep(r)

SpecScrape == InitDiscovered /\ [][NextScrape]_vars

\* discovery over every region of the window, one initialize request at a time
InitRegions == InitWith(Regions, FALSE)

NextDiscovery ==
    \/ CtorInitDone
    \/ CtorInitFailed
    \/ \E force \in BOOLEAN, dbOnly \in BOOLEAN : InitRequestAlone(force, dbOnly)
    \/ \E h \in InitReqs : InitStep(h)
    \/ \E g \in GenRuns : GenStep(g)
    \/ \E g \in GenRuns : GenZeroingStep(g)

SpecDiscovery == InitRegions /\ [][NextDiscovery]_vars

\* the region of the scheduler specification: three maxZoom tiles in a row,
\* under two minZoom tiles
RefreshRegion ==
    [minX |-> Sub + 1, maxX |-> 2 * Sub, minY |-> Sub, maxY |-> Sub + 1]

\* the pbf_tiles tables an earlier process can have left: each maxZoom tile
\* never fetched, or fetched once with body 1 at an hour before StartTime
PriorRows(t) ==
    { [x |-> t.x, y |-> t.y, z |-> t.z, data |-> 1, hash |-> getPbfHash(1),
       last_modified |-> at] : at \in 0..(StartTime - 1) }
PriorTables(store) ==
    { table \in SUBSET (UNION { PriorRows(t) : t \in getTilesByZoom(store, maxZoom) }) :
        \A p, q \in table : Key(p) = Key(q) => p = q }

\* the settings of the scheduler specification: with and without a cap, with
\* and without explicit zoom levels
SettingsChoices ==
    { [DefaultSettings EXCEPT !.maxTilesToProcess = cap, !.zoomLevels = levels] :
        cap \in {0, 2}, levels \in {<<>>, <<minZoom>>, <<minZoom, maxZoom>>} }

\* the controller when POST /api/scrape/start has just been accepted, over the
\* store and the content tables of an earlier process
InitScheduler(choices) ==
    /\ isInitialized = TRUE
    /\ isRunning = TRUE
    /\ currentOperation = "scraping"
    /\ ctorInit = "done"
    /\ initReq = [h \in InitReqs |-> IdleReq]
    /\ gen = [g \in GenRuns |-> IdleGen]
    /\ scr = [r \in ScrapeRuns |->
                IF r = 1 THEN [IdleScr EXCEPT !.pc = "loading"] ELSE IdleScr]
    /\ queue = <<>>
    /\ austriaData = RefreshRegion
    /\ tiles = DiscoveredRows(RefreshRegion, maxZoom)
    /\ pbf_tiles \in PriorTables(tiles)
    /\ response = Resp("start", 200, "Scraping started successfully")
    /\ stopSeen = [r \in ScrapeRuns |-> FALSE]
    /\ lastDiscovered = <<>>
    /\ settings \in choices
    /\ rejected = "none"
    /\ controllerSettings = settings
    /\ settingsTable = TableOf(settings)
    /\ validated = NoCall
    /\ database = NoDatabase
    /\ now = StartTime
    /\ pbf_tiles_history = <<>>
    /\ stats = StatsOf(tiles, pbf_tiles, pbf_tiles_history)

InitRefresh == InitScheduler(SettingsChoices)

\* one scheduler run, with the clock running
NextRefresh ==
    \/ \E r \in ScrapeRuns : ScrStep(r)
    \/ Tick

SpecRefresh == InitRefresh /\ [][NextRefresh]_vars

\* the initialized controller over a store that earlier runs have filled: every
\* maxZoom tile was fetched StartTime hours ago, and one tile has a version in
\* the history
InitHistory ==
    /\ isInitialized = TRUE
    /\ isRunning = FALSE
    /\ currentOperation = "null"
    /\ ctorInit = "done"
    /\ initReq = [h \in InitReqs |-> IdleReq]
    /\ gen = [g \in GenRuns |-> IdleGen]
    /\ scr = [r \in ScrapeRuns |-> IdleScr]
    /\ queue = <<>>
    /\ austriaData = CtlRegion
    /\ tiles = DiscoveredRows(CtlRegion, maxZoom)
    /\ pbf_tiles = { CHOOSE p \in PriorRows(t) : p.last_modified = 0 :
                       t \in getTilesByZoom(tiles, maxZoom) }
    /\ response = NoResponse
    /\ stopSeen = [r \in ScrapeRuns |-> FALSE]
    /\ lastDiscovered = <<>>
    /\ settings = DefaultSettings
    /\ rejected = "none"
    /\ controllerSettings = settings
    /\ settingsTable = TableOf(settings)
    /\ validated = NoCall
    /\ database = NoDatabase
    /\ now = StartTime
    /\ LET p == CHOOSE q \in pbf_tiles : \A o \in pbf_tiles : q.x <= o.x /\ q.y <= o.y
       IN  pbf_tiles_history = <<[x |-> p.x, y |-> p.y, z |-> p.z,
                                  data |-> p.data, hash |-> p.hash]>>
    /\ stats = StatsOf(tiles, pbf_tiles, pbf_tiles_history)

\* initialize, start and stop requests and the steps of the runs they start
NextHistory ==
    \/ \E force \in BOOLEAN, dbOnly \in BOOLEAN : InitRequestAlone(force, dbOnly)
    \/ \E h \in InitReqs : InitStep(h)
    \/ \E g \in GenRuns : GenStep(g)
    \/ \E g \in GenRuns : GenZeroingStep(g)
    \/ StartRequestAlone
    \/ StopRequest
    \/ \E r \in ScrapeRuns : ScrStep(r)

SpecHistory == InitHistory /\ [][NextHistory]_vars

\* a first scheduler run: no content stored yet, no cap, one explicit zoom
\* level, and neither a stop request nor a failing fetch, statement or query
FirstRunSettings ==
    { [DefaultSettings EXCEPT !.zoomLevels = <<z>>, !.batchSize = b, !.minQueueSize = m] :
        z \in Zooms, b \in 1..DefaultSettings.batchSize,
        m \in 1..DefaultSettings.minQueueSize }

InitFirstRun == InitScheduler(FirstRunSettings) /\ pbf_tiles = {}

NextFirstRun ==
    \/ ScrLoaded(1)
    \/ ScrNext(1)
    \/ \E data \in Contents : ScrTileDone(1, data)
    \/ ScrReloaded(1)
    \/ ScrFinish(1)

SpecFirstRun == InitFirstRun /\ [][NextFirstRun]_vars

\* a scheduler run over the content of an earlier process, with batches that
\* the LIMIT of the query cuts
InitLoading == InitScheduler(FirstRunSettings)

SpecLoading == InitLoading /\ [][NextRefresh]_vars

----------------------------------------------------------------------------
(* GET and POST /api/settings *)

\* what the settings routes leave alone
SettingsFrame ==
    /\ ~Exited
    /\ UNCHANGED <<ctlVars, ctorInit, initReq, gen, scr, queue, austriaData, storeVars,
                   stopSeen, lastDiscovered, settings, stats, validated, database, now, rejected>>

\* POST /api/settings with body `object`: ScraperController.saveSettings
\* writes the table, then merges the object into the settings in memory
PostSettings(object) ==
    /\ settingsTable' = saveSettings(settingsTable, object)
    /\ controllerSettings' = Merge(controllerSettings, object)
    /\ response' = Resp("settings", 200, "saved")
    /\ SettingsFrame

\* the transaction threw and was rolled back: saveSettings throws before the
\* merge
PostSettingsFailed ==
    /\ response' = Resp("settings", 500, "error")
    /\ UNCHANGED <<controllerSettings, settingsTable>>
    /\ SettingsFrame

\* GET /api/settings: ScraperController.loadSettings
GetSettings ==
    /\ controllerSettings' = loadSettings(controllerSettings, settingsTable)
    /\ response' = Resp("settings", 200, "loaded")
    /\ UNCHANGED settingsTable
    /\ SettingsFrame

\* the query threw: loadSettings catches and returns the settings in memory
GetSettingsFailed ==
    /\ response' = Resp("settings", 200, "memory")
    /\ UNCHANGED <<controllerSettings, settingsTable>>
    /\ SettingsFrame

\* the bodies of the POST requests
Updates ==
    { [batchSize |-> 2],
      [minQueueSize |-> 1, requestDelay |-> 0],
      [zoomLevels |-> <<minZoom>>] }

\* the settings tables an earlier process can have left
PersistedTables ==
    { EmptyTable,
      saveSettings(EmptyTable, [batchSize |-> 1, requestDelay |-> 100]) }

\* a new process over a discovered store and a settings table, the settings
\* routes, and one scheduler run at a time whose fetches and statements succeed
InitSettings == InitPersisted({CtlRegion}, TRUE, PersistedTables)

NextSettings ==
    \/ CtorInitDone
    \/ CtorInitFailed
    \/ \E object \in Updates : PostSettings(object)
    \/ PostSettingsFailed
    \/ GetSettings
    \/ GetSettingsFailed
    \/ StartRequestAlone
    \/ ScrLoaded(1)
    \/ ScrNext(1)
    \/ \E data \in Contents : ScrTileDone(1, data)
    \/ ScrReloaded(1)
    \/ ScrFinish(1)

SpecSettings == InitSettings /\ [][NextSettings]_vars

----------------------------------------------------------------------------
(* TileServer.validateTileCoordinates *)

\* the zoom levels the validator admits
ServedMinZoom == 10
ServedMaxZoom == 16

\* an argument: an integer, a number or text with a fractional or other
\* non-numeric tail after its integer part `whole` ("1.5", "-0.5", "12px"), or
\* text without a leading number
IntArg(n) == [kind |-> "int", whole |-> n]
FracArg(n) == [kind |-> "frac", whole |-> n]
TextArg == [kind |-> "text", whole |-> 0]

\* parseInt: the leading integer, or NaN
NaN == [nan |-> TRUE, val |-> 0]
parseInt(arg) == IF arg.kind = "text" THEN NaN ELSE [nan |-> FALSE, val |-> arg.whole]
isNaN(number) == number.nan

validateTileCoordinates(x, y, z) ==
    LET xNum == parseInt(x)
        yNum == parseInt(y)
        zNum == parseInt(z)
    IN  IF isNaN(xNum) \/ isNaN(yNum) \/ isNaN(zNum) THEN FALSE
        ELSE IF zNum.val < ServedMinZoom \/ zNum.val > ServedMaxZoom THEN FALSE
        ELSE LET maxTile == Pow2(zNum.val) - 1
             IN  ~(xNum.val < 0 \/ xNum.val > maxTile \/ yNum.val < 0 \/ yNum.val > maxTile)

\* the arguments of the calls: zoom levels around the admitted range, and
\* coordinates around the ends of the tile range of its two ends
ZoomArgs ==
    {TextArg} \cup { IntArg(n) : n \in (ServedMinZoom - 1)..(ServedMaxZoom + 1) }
              \cup { FracArg(n) : n \in (ServedMinZoom - 1)..(ServedMaxZoom + 1) }
CoordinateWholes ==
    {-1, 0} \cup UNION { {Pow2(n) - 1, Pow2(n)} : n \in {ServedMinZoom, ServedMaxZoom} }
CoordinateArgs ==
    {TextArg} \cup { IntArg(n) : n \in CoordinateWholes }
              \cup { FracArg(n) : n \in CoordinateWholes }

\* the first call of the validator
Validate(x, y, z) ==
    /\ validated = NoCall
    /\ validated' = [x |-> x, y |-> y, z |-> z, result |-> validateTileCoordinates(x, y, z)]
    /\ response' = NoResponse
    /\ UNCHANGED <<ctlVars, ctorInit, initReq, gen, scr, queue, austriaData, storeVars,
                   stopSeen, lastDiscovered, settings, controllerSettings, settingsTable,
                   stats, database, now, rejected>>

NextValidate ==
    \E x \in CoordinateArgs, y \in CoordinateArgs, z \in ZoomArgs : Validate(x, y, z)

SpecValidate == InitHistory /\ [][NextValidate]_vars

\* the priority queue taken alone: any caller enqueues any tile of the store
\* with any priority, finite or Infinity, and dequeues
QueueTiles == { JoinedRow(t, {}) : t \in getTilesByZoom(DiscoveredRows(RefreshRegion, maxZoom), maxZoom) }
QueuePriorities == { Fin(n) : n \in {0, 100, 300} } \cup {Infinity}

InitQueue == InitRefresh /\ pbf_tiles = {} /\ settings = DefaultSettings

QEnqueue(tile, priority) ==
    /\ size(queue) < MaxQueue
    /\ queue' = enqueue(queue, tile, priority)
    /\ UNCHANGED <<ctlVars, scr, stopSeen, storeVars>>
    /\ ScrFrame

\* const { tile } = dequeue(): the caller keeps the tile of the returned item
QDequeue(r) ==
    /\ ~isEmpty(queue)
    /\ scr' = [scr EXCEPT ![r].tile = dequeue(queue).item.tile]
    /\ queue' = dequeue(queue).rest
    /\ UNCHANGED <<ctlVars, stopSeen, storeVars>>
    /\ ScrFrame

NextQueue ==
    \/ \E tile \in QueueTiles, priority \in QueuePriorities : QEnqueue(tile, priority)
    \/ QDequeue(1)

SpecQueue == InitQueue /\ [][NextQueue]_vars

\* scheduler runs one after the other: each start request is accepted when the
\* run before it has settled, with and without a cap on the tiles of a run;
\* no fetch and no statement fails
RepeatSettings ==
    { [DefaultSettings EXCEPT !.maxTilesToProcess = cap] : cap \in {0, 2} }

InitRepeat == InitScheduler(RepeatSettings) /\ pbf_tiles = {}

NextRepeat ==
    \/ \E r \in ScrapeRuns :
          \/ ScrLoaded(r)
          \/ ScrNext(r)
          \/ \E data \in Contents : ScrTileDone(r, data)
          \/ ScrReloaded(r)
          \/ ScrFinish(r)
    \/ StartRequestAlone

SpecRepeat == InitRepeat /\ [][NextRepeat]_vars

\* ScrTileDone for a run without cap, with the counters the loop cannot
\* distinguish folded together: with maxTilesToProcess = 0 the loop reads
\* processed only in processed % minQueueSize, so processed is kept modulo
\* minQueueSize, and the run's additions to processed_tiles of the stats row,
\* which nothing in the loop reads, are not followed
ScrTileDoneUncapped(r, data) ==
    /\ scr[r].pc = "fetching"
    /\ settings.maxTilesToProcess = 0
    /\ pbf_tiles' = AfterFetch(scr[r].tile, data).pbf_tiles
    /\ pbf_tiles_history' = AfterFetch(scr[r].tile, data).pbf_tiles_history
    /\ scr' = [scr EXCEPT ![r] =
                  [@ EXCEPT !.pc = IF (scr[r].processed + 1) % settings.minQueueSize = 0
                                      /\ size(queue) < settings.minQueueSize
                                   THEN "reloading" ELSE "head",
                            !.tile = NoTile,
                            !.processed = (scr[r].processed + 1) % settings.minQueueSize]]
    /\ UNCHANGED <<ctlVars, queue, stopSeen>>
    /\ ScrFrame

\* one scheduler run without cap over a store with never-fetched and stale
\* content; every fetch answers, with the stored body or another one, and no
\* statement or query fails. The clock stands still during the run
InitHalting == InitScheduler(FirstRunSettings)

NextHalting ==
    \/ ScrLoaded(1)
    \/ ScrNext(1)
    \/ \E data \in Contents : ScrTileDoneUncapped(1, data)
    \/ ScrReloaded(1)
    \/ ScrFinish(1)

\* scrapePbfTiles is one async function on the event loop: each await whose
\* operation succeeds resolves, so a step that stays possible is taken
SpecHalting == InitHalting /\ [][NextHalting]_vars /\ WF_vars(NextHalting)

----------------------------------------------------------------------------
(* Database.init *)

\* what a step of Database.init leaves alone
DbFrame ==
    /\ ~Exited
    /\ response' = NoResponse
    /\ UNCHANGED <<ctlVars, ctorInit, initReq, gen, scr, queue, austriaData, storeVars,
                   stopSeen, lastDiscovered, settings, controllerSettings, settingsTable,
                   stats, validated, now, rejected>>

DbInProgress(c) == database.call[c].pc \in {"attempt", "wait"}

\* "delay *= 2" left out
NextDelayConstant(delay) == delay
\* "delay *= 2; // Exponential backoff"
NextDelay(delay) == delay * 2

\* init() is called while no other call is in progress: it returns at once if
\* isInitialized, and otherwise creates the pool and enters the loop
DbInit(c) ==
    /\ database.call[c].pc = "idle"
    /\ \A d \in DbCalls : ~DbInProgress(d) /\ (d < c => database.call[d].pc # "idle")
    /\ database' = [database EXCEPT !.call[c].pc =
                        IF database.isInitialized THEN "returned" ELSE "attempt"]
    /\ DbFrame

\* pool.connect() and SELECT NOW() resolved
DbConnected(c) ==
    /\ database.call[c].pc = "attempt"
    /\ database' = [database EXCEPT !.isInitialized = TRUE,
                                    !.call[c].pc = "returned",
                                    !.call[c].attempts = @ + 1]
    /\ DbFrame

\* one of them threw: retries--, and the error is thrown on when no retry is
\* left
DbConnectFailed(c) ==
    /\ database.call[c].pc = "attempt"
    /\ database' = [database EXCEPT !.call[c].retries = @ - 1,
                                    !.call[c].attempts = @ + 1,
                                    !.call[c].pc = IF database.call[c].retries - 1 = 0
                                                   THEN "thrown" ELSE "wait"]
    /\ DbFrame

\* the timeout of `delay` has passed
DbWaited(c) ==
    /\ database.call[c].pc = "wait"
    /\ database' = [database EXCEPT !.call[c].waits = Append(@, database.call[c].delay),
                                    !.call[c].delay = NextDelay(@),
                                    !.call[c].pc = "attempt"]
    /\ DbFrame

\* Database.close between two calls of init: the pool is ended
DbClose ==
    /\ database.isInitialized
    /\ \A d \in DbCalls : ~DbInProgress(d)
    /\ database' = [database EXCEPT !.isInitialized = FALSE]
    /\ DbFrame

\* calls of Database.init one after the other, with any outcome of each
\* connection attempt
NextDatabase ==
    \/ \E c \in DbCalls :
          \/ DbInit(c)
          \/ DbConnected(c)
          \/ DbConnectFailed(c)
          \/ DbWaited(c)
    \/ DbClose

SpecDatabase == Init /\ [][NextDatabase]_vars

----------------------------------------------------------------------------
(* Properties of the control routes *)

\* a scheduler run is inside scrapePbfTiles, a discovery run inside generateTiles
RefreshInProgress(r) == scr[r].pc # "idle"
DiscoveryInProgress(g) == gen[g].pc \in {"scan", "zoomDone", "batch"}
Fetching(r) == scr[r].pc = "fetching"
Dequeues(r) == scr[r].pc = "head" /\ scr'[r].pc = "fetching"

\* C1: once a stop is accepted during a scheduler run whose queue holds more
\* than one item, the run dequeues no further item, so it halts with the
\* queue non-empty and isRunning false
C1_StopHaltsTheRun ==
    [][\A r \in ScrapeRuns : stopSeen[r] => ~Dequeues(r)]_vars

\* C2: tile discovery (generateTiles) and the refresh loop (scrapePbfTiles)
\* are never both in progress
C2_DiscoveryExcludesRefresh ==
    ~(\E g \in GenRuns, r \in ScrapeRuns : DiscoveryInProgress(g) /\ RefreshInProgress(r))

\* C3: at most one refresh loop is draining the priority queue and at most one
\* remote fetch is in flight
C3_OneLoopOneFetch ==
    /\ Cardinality({r \in ScrapeRuns : RefreshInProgress(r)}) <= 1
    /\ Cardinality({r \in ScrapeRuns : Fetching(r)}) <= 1

\* C4: an initialize request that arrives while a discovery run is pending is
\* refused with 'Tile generation already in progress', and at most one
\* discovery run is pending at a time
C4_OneDiscoveryRun ==
    [][/\ (ActiveGens # {} /\ \E force \in BOOLEAN, dbOnly \in BOOLEAN :
                                  InitRequest(force, dbOnly))
             => response' = Resp("init", 400, "Tile generation already in progress")
       /\ Cardinality({g \in GenRuns : gen'[g].pc # "idle"}) <= 1]_vars

\* C5: a start request is refused whenever the controller is not initialized
\* or a scheduler run is in progress; otherwise it sets isRunning and
\* currentOperation = 'scraping', starts a run in the background and answers
\* at once
C5_StartRefresh ==
    [][StartRequest =>
          IF ~isInitialized \/ ActiveScrs # {}
          THEN response'.status = 400 /\ UNCHANGED <<ctlVars, scr>>
          ELSE /\ isRunning' /\ currentOperation' = "scraping"
               /\ response'.status = 200
               /\ \E r \in ScrapeRuns : scr[r].pc = "idle" /\ scr'[r].pc = "loading"]_vars

\* the step answers a control request with a refusal
Refuses == response'.status = 400

\* handler h of POST /api/init answers in this step
Answers(h) == initReq[h].pc # "idle" /\ initReq'[h].pc = "idle"

\* a discovery run starts in this step
StartsDiscovery == \E g \in GenRuns : gen[g].pc = "idle" /\ gen'[g].pc = "reset"

\* C6: every refused control request leaves isInitialized, isRunning and
\* currentOperation as they were before the request: the refusing step
\* changes none of them, and a refused POST /api/init leaves currentOperation
\* as the request found it
C6_RefusalChangesNothing ==
    [][Refuses =>
          /\ UNCHANGED ctlVars
          /\ \A h \in InitReqs : Answers(h) => currentOperation' = initReq[h].before]_vars

\* C7: an initialize request that is answered without a failure starts a
\* discovery run if and only if databaseOnly is not set and the store holds
\* no tile or force is set
C7_DiscoveryIffNeeded ==
    [][\A h \in InitReqs :
          Answers(h) /\ response'.status # 500 =>
             (StartsDiscovery <=>
                 ~initReq[h].dbOnly /\ (tiles = {} \/ initReq[h].force))]_vars

ParentOf(t) == [x |-> t.x \div 2, y |-> t.y \div 2, z |-> t.z - 1]

\* C8: each tile above minZoom carries the parent reference
\* (x div 2, y div 2, z - 1) and that parent is in the store; each tile at
\* minZoom has a null parent
C8_ParentsExist ==
    \A t \in tiles :
        IF t.z = minZoom
        THEN t.parent_x = NULL /\ t.parent_y = NULL /\ t.parent_z = NULL
        ELSE /\ [x |-> t.parent_x, y |-> t.parent_y, z |-> t.parent_z] = ParentOf(t)
             /\ \E p \in tiles : Key(p) = ParentOf(t)

NoDuplicateTriple(store) == \A t, u \in store : Key(t) = Key(u) => t = u

\* discovery run g has inserted the rows of its last zoom level: generateTiles
\* is about to return
Completes(g) == gen[g].pc = "zoomDone" /\ gen[g].zoom = maxZoom

\* C9: a second discovery run over the same region and zoom bounds completes
\* with the set of tiles, parent references included, as the first run left
\* it, and the store never holds a duplicate coordinate triple
C9_DiscoveryIdempotent ==
    /\ NoDuplicateTriple(tiles)
    /\ \A g \in GenRuns :
          Completes(g) /\ lastDiscovered # <<>> => tiles = lastDiscovered[1]

\* a second run completes over a region with tiles at both zoom levels
C9_Witness ==
    /\ lastDiscovered # <<>>
    /\ \E g \in GenRuns : Completes(g)
    /\ \E t, u \in tiles : t.z = minZoom /\ u.z = maxZoom

\* C10: after a successful discovery run the store holds a tile (x, y, z),
\* minZoom <= z <= maxZoom, if and only if the tile intersects the region
C10_StoreIsIntersectingTiles ==
    lastDiscovered # <<>> =>
        { Key(t) : t \in lastDiscovered[1] }
          = { k \in WindowTiles : tileIntersectsAustria(austriaData, k.x, k.y, k.z) }

----------------------------------------------------------------------------
(* Properties of the scheduler *)

\* a.priority >= b.priority, for finite and Infinity priorities
AtLeast(a, b) == a.inf \/ (~b.inf /\ a.val >= b.val)

NeverFetched(item) == item.tile.last_modified = NULL

\* the hour at which a previously fetched work item was enqueued: its
\* last_modified plus the age its priority was computed from
EnqueuedAt(item) == item.tile.last_modified + (item.priority.val \div 100)

\* C11: work items leave the queue in non-increasing priority, with priority =
\* age_hours * 100 + (never fetched ? 10000 : 0): every never-fetched item is
\* ahead of every previously fetched one, and the previously fetched items of
\* one Loading pass are in order of descending age
C11_DequeueOrder ==
    /\ \A i \in 1..Len(queue) :
          IF NeverFetched(queue[i])
          THEN queue[i].priority = Infinity
          ELSE /\ ~queue[i].priority.inf
               /\ queue[i].priority.val % 100 = 0
               /\ EnqueuedAt(queue[i]) \in StartTime..now
    /\ \A i, j \in 1..Len(queue) :
          i < j =>
             /\ AtLeast(queue[i].priority, queue[j].priority)
             /\ NeverFetched(queue[j]) => NeverFetched(queue[i])
             /\ (~NeverFetched(queue[i]) /\ ~NeverFetched(queue[j])
                   /\ EnqueuedAt(queue[i]) = EnqueuedAt(queue[j]))
                  => queue[i].tile.last_modified <= queue[j].tile.last_modified

\* one Loading pass has enqueued a never-fetched tile, one fetched 3 hours ago
\* and one fetched 2 hours ago, in this order
C11_Witness ==
    /\ Len(queue) = 3
    /\ NeverFetched(queue[1])
    /\ queue[2].tile.last_modified = StartTime - 3 /\ queue[2].priority = Fin(300)
    /\ queue[3].tile.last_modified = StartTime - 2 /\ queue[3].priority = Fin(200)

\* C12: after any sequence of enqueue and dequeue calls with finite or
\* Infinity priorities, dequeue returns an item whose priority is at least that
\* of every item left in the queue, and isEmpty() holds exactly when size() is 0
C12_DequeueReturnsHighest ==
    [][/\ isEmpty(queue') <=> size(queue') = 0
       /\ (~isEmpty(queue) /\ queue' = dequeue(queue).rest)
            => \A i \in 1..Len(queue') :
                  AtLeast(dequeue(queue).item.priority, queue'[i].priority)]_vars

\* a dequeue has returned a tile and left both an Infinity and a finite priority
C12_Witness ==
    /\ scr[1].tile # NoTile
    /\ size(queue) = 2
    /\ queue[1].priority = Infinity
    /\ queue[2].priority = Fin(300)

\* the first Loading pass of a run: the rows it enqueued are the queue after it
FirstLoadingPass ==
    /\ scr[1].pc = "loading"
    /\ scr'[1].pc = "head"
    /\ queue = <<>>

\* stale or never fetched, at a zoom of zoomLevels when that list is non-empty
\* and otherwise at a zoom between minZoom and maxZoom
EligibleByRange(row) ==
    /\ row.last_modified = NULL \/ row.last_modified < now - settings.updateInterval
    /\ IF Len(settings.zoomLevels) > 0
       THEN row.z \in Range(settings.zoomLevels)
       ELSE settings.minZoom <= row.z /\ row.z <= settings.maxZoom

\* C13: a Loading pass makes eligible exactly the stale or never-fetched tiles
\* whose zoom is in zoomLevels when that list is non-empty, and otherwise
\* exactly those whose zoom lies between minZoom and maxZoom: every tile the
\* pass enqueues is one of them, and a pass that was not cut by batchSize
\* enqueues all of them
C13_EligibleZooms ==
    [][FirstLoadingPass =>
         LET loaded == { queue'[i].tile : i \in 1..Len(queue') }
             eligible == { row \in { JoinedRow(t, pbf_tiles) : t \in tiles } :
                             EligibleByRange(row) }
         IN  /\ loaded \subseteq eligible
             /\ Len(queue') < settings.batchSize => loaded = eligible]_vars

\* the loop of run 1 is left: from its head to the final counts
LoopLeft == scr[1].pc = "head" /\ scr'[1].pc = "final"

\* C14: when maxTilesToProcess is nonzero the number of tiles processed in one
\* run never exceeds it; when it is 0 the loop is never left on a cap, only on
\* an empty queue
C14_ProcessedWithinCap ==
    [][/\ settings.maxTilesToProcess > 0
            => scr'[1].processed <= settings.maxTilesToProcess
       /\ (settings.maxTilesToProcess = 0 /\ LoopLeft) => isEmpty(queue)]_vars

\* the cap has ended a run: processed tiles equal the cap, work is still queued
C14_Witness ==
    /\ settings.maxTilesToProcess > 0
    /\ scr[1].pc = "final"
    /\ scr[1].processed = settings.maxTilesToProcess
    /\ ~isEmpty(queue)

\* the cap of maxTilesToProcess is reached by run 1
CapReached ==
    settings.maxTilesToProcess > 0 /\ scr[1].processed >= settings.maxTilesToProcess

\* C15: a run that halts without reaching the cap (no stop request is made)
\* halts only when the queue is empty and a Loading pass at that moment would
\* return no tile; stated for the runs during which no tile went stale, the
\* clock still being at the hour of the start
C15_HaltsOnlyWhenNothingIsDue ==
    [][(LoopLeft /\ ~CapReached /\ now = StartTime)
         => /\ isEmpty(queue)
            /\ TilesToUpdate(tiles, pbf_tiles) = {<<>>}]_vars

\* run 1 leaves a fetch without counting the tile as processed: the fetch
\* returned null, or the content transaction threw
TileFailed ==
    /\ scr[1].pc = "fetching"
    /\ scr'[1] # scr[1]
    /\ scr'[1].processed # scr[1].processed + 1

\* C16: a failed fetch or a failed content transaction increments the error
\* counter and never terminates the run: the run is back at the head of its
\* loop with the queue as it was, so that it continues with the next queued item
C16_FailureContinues ==
    [][TileFailed =>
         /\ scr'[1].errors = scr[1].errors + 1
         /\ scr'[1].processed = scr[1].processed
         /\ scr'[1].pc = "head"
         /\ queue' = queue
         /\ isRunning' /\ currentOperation' = "scraping"]_vars

\* after a failure the run has dequeued the next item and is fetching it
C16_Witness ==
    /\ scr[1].errors = 1
    /\ scr[1].processed = 0
    /\ scr[1].pc = "fetching"

\* the row of pbf_tiles for a tile, as the upsert of `data` at this hour leaves it
Upserted(tile, data) ==
    [x |-> tile.x, y |-> tile.y, z |-> tile.z, data |-> data,
     hash |-> getPbfHash(data), last_modified |-> now]

\* C17: the history append and the upsert of the current content of one
\* refresh are committed together or not at all: a step of a run whose work
\* item carries a hash either appends one history row and upserts the tile's
\* row with the same bytes and hash, or changes neither table; no other step
\* appends to the history
C17_HistoryAndContentTogether ==
    [][IF scr[1].pc = "fetching" /\ scr[1].tile.hash # NULL
       THEN \/ /\ pbf_tiles_history' = pbf_tiles_history
               /\ pbf_tiles' = pbf_tiles
            \/ \E data \in Contents :
                  /\ pbf_tiles_history' =
                        Append(pbf_tiles_history, ContentRow(scr[1].tile, data))
                  /\ pbf_tiles' = { p \in pbf_tiles : Key(p) # Key(scr[1].tile) }
                                     \cup {Upserted(scr[1].tile, data)}
       ELSE pbf_tiles_history' = pbf_tiles_history]_vars

\* a refresh has committed its history row together with the current row, and
\* a tile of the run has failed
C17_Witness ==
    /\ scr[1].errors = 1
    /\ Len(pbf_tiles_history) = 1
    /\ \E p \in pbf_tiles :
          /\ Key(p) = Key(pbf_tiles_history[1])
          /\ p.data = pbf_tiles_history[1].data
          /\ p.hash = pbf_tiles_history[1].hash
          /\ p.last_modified = now

\* run 1 completes a fetch that returned data: the tile counts as processed
FetchSucceeded == scr[1].pc = "fetching" /\ scr'[1].processed = scr[1].processed + 1

\* C18: pbf_tiles holds at most one row per (x, y, z); after each successful
\* fetch the tile's row holds the fetched bytes and their hash, and the
\* transaction of the fetch writes the row at most once
C18_CurrentRowIsTheFetch ==
    [][/\ \A p, q \in pbf_tiles' : Key(p) = Key(q) => p = q
       /\ FetchSucceeded =>
            \E data \in Contents :
               /\ pbf_tiles' = AfterFetch(scr[1].tile, data).pbf_tiles
               /\ pbf_tiles_history' = AfterFetch(scr[1].tile, data).pbf_tiles_history
               /\ Cardinality({ k \in 1..Len(TxnStatements(scr[1].tile, data)) :
                      TxnStatements(scr[1].tile, data)[k].table = "pbf_tiles" }) <= 1
               /\ \E p \in pbf_tiles' :
                     /\ Key(p) = Key(scr[1].tile)
                     /\ p.data = data
                     /\ p.hash = getPbfHash(data)]_vars

\* C19: after every successful fetch, also one whose hash equals the stored
\* hash, the tile's last_modified is the time of the fetch, so that the tile is
\* not stale before updateInterval hours have passed
C19_FetchSetsLastModified ==
    [][FetchSucceeded =>
         \E p \in pbf_tiles' :
            /\ Key(p) = Key(scr[1].tile)
            /\ p.last_modified = now
            /\ ~NeedsUpdate(JoinedRow(scr[1].tile, pbf_tiles'))]_vars

\* C20: each successful fetch of a tile whose work item carries a
\* prior hash appends exactly one history row with the fetched bytes and hash,
\* also when the new hash equals the prior hash; a fetch of a tile with no
\* prior hash appends no history row
C20_HistoryRowPerFetch ==
    [][FetchSucceeded =>
         IF scr[1].tile.hash # NULL
         THEN \E data \in Contents :
                 pbf_tiles_history' =
                    Append(pbf_tiles_history, ContentRow(scr[1].tile, data))
         ELSE pbf_tiles_history' = pbf_tiles_history]_vars

\* C21: pbf_tiles_history only grows: no step of discovery, of the scheduler
\* or of the controller updates or deletes a row, so every step keeps the
\* earlier rows and never lowers the row count
C21_HistoryOnlyGrows ==
    [][/\ Len(pbf_tiles_history') >= Len(pbf_tiles_history)
       /\ \A i \in 1..Len(pbf_tiles_history) :
             pbf_tiles_history'[i] = pbf_tiles_history[i]]_vars

\* the history has grown by a refresh, and a discovery run has since reset the
\* tiles table
C21_Witness ==
    /\ Len(pbf_tiles_history) = 2
    /\ \E g \in GenRuns : gen[g].pc = "scan"

\* the discovered tiles of the zoom level the run is set to
TilesInScope == { t \in tiles : t.z \in Range(settings.zoomLevels) }

\* C22: from N discovered tiles in the zoom scope and no stored content, a run
\* without cap, stop request or failure fetches each tile exactly once: it
\* halts with one pbf_tiles row per tile, N tiles processed and no history row
C22_FirstRunFetchesEachTileOnce ==
    scr[1].pc = "final" =>
       /\ scr[1].processed = Cardinality(TilesInScope)
       /\ { Key(p) : p \in pbf_tiles } = { Key(t) : t \in TilesInScope }
       /\ Cardinality(pbf_tiles) = Cardinality(TilesInScope)
       /\ pbf_tiles_history = <<>>

\* POST /api/init would be taken up: the handler runs and passes the guard on
\* 'generating_tiles'
InitAccepted ==
    ENABLED (\E force \in BOOLEAN, dbOnly \in BOOLEAN :
                InitRequest(force, dbOnly) /\ currentOperation' = "initializing")

\* C26: after a failed discovery run the controller has currentOperation =
\* null and isInitialized = false, and an initialize request is accepted
C26_FailedDiscoveryAcceptsInit ==
    rejected = "generateTilesInBackground" =>
       /\ currentOperation = "null"
       /\ isInitialized = FALSE
       /\ InitAccepted

\* C28: validateTileCoordinates(x, y, z) is true exactly when x, y and z are
\* integers, z lies in the configured zoom range, and x and y lie in
\* 0 .. 2^z - 1
C28_ValidExactlyInRange ==
    validated # NoCall =>
       (validated.result <=>
          /\ validated.x.kind = "int" /\ validated.y.kind = "int" /\ validated.z.kind = "int"
          /\ validated.z.whole \in controllerSettings.minZoom..controllerSettings.maxZoom
          /\ validated.x.whole \in 0..(Pow2(validated.z.whole) - 1)
          /\ validated.y.whole \in 0..(Pow2(validated.z.whole) - 1))

\* a Loading pass of run 1 that resolved, at the start of the run or in the loop
LoadingPass ==
    /\ scr[1].pc \in {"loading", "reloading"}
    /\ scr'[1].pc = "head"
    /\ scr'[1].errors = scr[1].errors

\* the number of times an item is in the queue
Occurrences(q, item) == Cardinality({ i \in 1..Len(q) : q[i] = item })

\* C29: every work item a Loading pass enqueues is, at load time, a discovered
\* tile without content or with content whose last_modified is more than
\* updateInterval hours old, and one pass enqueues at most batchSize items
C29_LoadsOnlyDueTiles ==
    [][LoadingPass =>
         /\ Len(queue') - Len(queue) <= settings.batchSize
         /\ \A item \in Range(queue') :
               Occurrences(queue', item) > Occurrences(queue, item) =>
                  /\ \E t \in tiles : Key(t) = Key(item.tile)
                  /\ \A p \in pbf_tiles :
                        Key(p) = Key(item.tile) =>
                           p.last_modified < now - settings.updateInterval]_vars

\* a first pass has filled the queue to batchSize, with a tile of stale content
\* among the items
C29_Witness ==
    /\ scr[1].pc = "head"
    /\ scr[1].processed = 0
    /\ Len(queue) = settings.batchSize
    /\ \E i \in 1..Len(queue) : ~NeverFetched(queue[i])
    /\ \E t \in getTilesByZoom(tiles, zoomLevel) :
          \A i \in 1..Len(queue) : Key(queue[i].tile) # Key(t)

----------------------------------------------------------------------------
(* Properties of the settings *)

\* P's value for every key of P and S's value for every other key
Updated(S, P, result) ==
    /\ DOMAIN result = (DOMAIN S) \cup (DOMAIN P)
    /\ \A k \in DOMAIN result :
          result[k] = IF k \in DOMAIN P THEN P[k] ELSE S[k]

CompiledDefaults(k) ==
    {ScraperDefaults[k]} \cup
       (IF k \in DOMAIN DefaultSettings THEN {DefaultSettings[k]} ELSE {})

\* POST /api/scrape/start is accepted: run 1 starts
RunStarts == scr[1].pc = "idle" /\ scr'[1].pc = "loading"

\* C24: for every recognized settings key the value a scheduler run uses is
\* the persisted value when there is one and the compiled-in default otherwise
C24_RunUsesPersistedOrDefault ==
    [][RunStarts =>
         \A k \in SettingKeys :
            /\ k \in DOMAIN settings'
            /\ IF k \in DOMAIN settingsTable
               THEN settings'[k] = parse(settingsTable[k])
               ELSE settings'[k] \in CompiledDefaults(k)]_vars

\* a Loading pass in the loop of run 1
ReloadingPass == scr[1].pc = "reloading" /\ scr'[1].pc = "head"

\* C25: a settings update accepted during a scheduler run is the configuration
\* the next Loading pass of that run uses
C25_UpdateReachesNextPass ==
    [][ReloadingPass =>
         \A k \in DOMAIN controllerSettings :
            k \in DOMAIN settings /\ settings[k] = controllerSettings[k]]_vars

----------------------------------------------------------------------------
(* Properties of the progress statistics *)

\* run r halts: its loop has ended and the final saveStats resolved
Halts(r) == scr[r].pc = "final" /\ scr'[r].pc = "idle" /\ rejected' = "none"

\* C30: when a scheduler run halts, the stats row holds the number of
\* pbf_tiles rows as processed_tiles and the number of pbf_tiles_history rows
\* as updated_tiles, whatever the run has counted in memory
C30_HaltSavesRowCounts ==
    [][\A r \in ScrapeRuns :
          Halts(r) => /\ stats' # <<>>
                      /\ stats'[1].processed_tiles = Cardinality(pbf_tiles')
                      /\ stats'[1].updated_tiles = Len(pbf_tiles_history')]_vars

\* a run has halted after fetches that wrote versions to the history, and the
\* stats row holds the two row counts
C30_Witness ==
    /\ \A r \in ScrapeRuns : scr[r].pc = "idle"
    /\ ~isRunning
    /\ rejected = "none"
    /\ Len(pbf_tiles_history) > 0
    /\ stats # <<>>
    /\ stats[1].processed_tiles = Cardinality(pbf_tiles)
    /\ stats[1].updated_tiles = Len(pbf_tiles_history)

\* the resetTiles of run g resolves
ResetCompletes(g) == gen[g].pc = "reset" /\ gen'[g].pc \in {"start", "scan"}

\* C27: rows leave the tiles table only when a reset completes, and when it
\* has completed the table is empty and total_tiles of the stats record, if
\* there is one, is 0
C27_ResetClearsTilesAndTotal ==
    [][/\ (\E t \in tiles : t \notin tiles') => \E g \in GenRuns : ResetCompletes(g)
       /\ \A g \in GenRuns :
             ResetCompletes(g) =>
                /\ tiles' = {}
                /\ stats' = <<>> \/ getStats(stats').total_tiles = 0]_vars

----------------------------------------------------------------------------
(* Properties of a failed discovery run *)

\* discovery run g fails: generateTilesInBackground rejects
DiscoveryFails(g) ==
    gen[g].pc # "idle" /\ gen'[g].pc = "idle" /\ rejected' = "generateTilesInBackground"

\* C31: when a discovery run fails the error is thrown on, the run processes
\* no further zoom level, the tiles of every committed batch stay in the store
\* and no tile of the failed batch is stored, then or later
C31_FailureKeepsCommittedBatches ==
    [][/\ \A g \in GenRuns :
             DiscoveryFails(g) => /\ tiles' = tiles
                                  /\ gen'[g] = IdleGen
                                  /\ ~isInitialized'
       /\ rejected = "generateTilesInBackground" => tiles' = tiles /\ gen' = gen]_vars

\* a run has failed at maxZoom after a batch of that level was committed: the
\* store holds the minZoom tiles and a part of the maxZoom tiles
C31_Witness ==
    /\ rejected = "generateTilesInBackground"
    /\ getTilesByZoom(tiles, minZoom) = getTilesByZoom(DiscoveredRows(austriaData, maxZoom), minZoom)
    /\ getTilesByZoom(tiles, maxZoom) # {}
    /\ getTilesByZoom(tiles, maxZoom) # getTilesByZoom(DiscoveredRows(austriaData, maxZoom), maxZoom)

----------------------------------------------------------------------------
(* Properties of Database.init *)

\* the delays between the five attempts, in seconds
Backoff == <<2, 4, 8, 16>>

\* C32: a call of Database.init makes at most 5 connection attempts and waits
\* 2, 4, 8 and 16 seconds between them; its first successful attempt sets
\* isInitialized and is its last; the fifth failure raises the error with
\* isInitialized false
C32_FiveAttemptsWithBackoff ==
    [][\A c \in DbCalls :
          LET old == database.call[c]
              new == database'.call[c]
          IN  /\ new.attempts <= 5
              /\ new.waits = SubSeq(Backoff, 1, Len(new.waits))
              /\ new.pc = "attempt" => Len(new.waits) = new.attempts
              /\ new.pc = "wait" => Len(new.waits) = new.attempts - 1
              /\ (old.pc = "attempt" /\ new.pc = "returned") => database'.isInitialized
              /\ old.pc = "returned" => new = old
              /\ (old.pc = "attempt" /\ new.pc = "thrown") =>
                     /\ new.attempts = 5
                     /\ new.waits = Backoff
                     /\ ~database'.isInitialized
              /\ old.pc = "thrown" => new = old]_vars

\* one call has raised the error after five attempts, and a later call has
\* connected at its third attempt
C32_Witness ==
    /\ database.call[1].pc = "thrown"
    /\ database.call[1].waits = Backoff
    /\ database.call[2].pc = "returned"
    /\ database.call[2].attempts = 3
    /\ database.isInitialized

----------------------------------------------------------------------------
(* Properties of the controller flags *)

\* C33: in every reachable state of the controller, isRunning implies
\* isInitialized
C33_RunningImpliesInitialized == isRunning => isInitialized

----------------------------------------------------------------------------
(* Properties of the queue across runs *)

\* a start request is accepted and run r begins
RunBegins(r) == scr[r].pc = "idle" /\ scr'[r].pc = "loading"

\* C34: when a scheduler run starts, the priority queue holds no work item of
\* an earlier run
C34_QueueEmptyAtStart ==
    [][\A r \in ScrapeRuns : RunBegins(r) => isEmpty(queue) /\ isEmpty(queue')]_vars

\* C35: the priority queue never holds two work items for the same (x, y, z)
C35_OneItemPerTile ==
    \A i, j \in 1..Len(queue) :
        Key(queue[i].tile) = Key(queue[j].tile) => i = j

----------------------------------------------------------------------------
(* Termination of a scheduler run *)

\* C36: with maxTilesToProcess = 0 and every fetch answered, a scheduler run
\* that has started eventually halts
C36_RunHalts == (scr[1].pc # "idle") ~> (scr[1].pc = "idle")

----------------------------------------------------------------------------
(* Properties of the content history across stale work items *)

\* C37: a step that replaces the stored hash of a tile by a different hash
\* appends a pbf_tiles_history row for that tile with the new hash
C37_ReplacedHashHasHistoryRow ==
    [][\A p \in pbf_tiles, q \in pbf_tiles' :
          (Key(p) = Key(q) /\ p.hash # q.hash) =>
             /\ Len(pbf_tiles_history') = Len(pbf_tiles_history) + 1
             /\ Key(pbf_tiles_history'[Len(pbf_tiles_history')]) = Key(q)
             /\ pbf_tiles_history'[Len(pbf_tiles_history')].hash = q.hash]_vars


(***************************************************************************)
(* Properties of the reported status                                       *)
(***************************************************************************)

\* C38: while a scheduler run is in progress the controller reports
\* isRunning = true and currentOperation = 'scraping', and while a discovery
\* run is in progress it reports currentOperation = 'generating_tiles'
C38_StatusFollowsTheRuns ==
    /\ \A r \in ScrapeRuns :
          RefreshInProgress(r) => isRunning /\ currentOperation = "scraping"
    /\ \A g \in GenRuns :
          DiscoveryInProgress(g) => currentOperation = "generating_tiles"

(***************************************************************************)
(* Properties of the stats table                                           *)
(***************************************************************************)

\* C39: the stats table never holds more than one record, so the record
\* that getStats reads is the record of id 1 that saveStats updates
C39_OneStatsRecord ==
    /\ Len(stats) <= 1
    /\ stats # <<>> => getStats(stats) = stats[1]

\* the rows discovery run g has found and stored so far: in the scan of
\* minZoom the rows of its commits, later totalTileCount
FoundSoFar(g) ==
    IF gen[g].pc = "scan"
    THEN Len(ScanRows(austriaData, minZoom)) - Len(gen[g].pending)
    ELSE gen[g].total

\* discovery run g completes: generateTilesInBackground has saved the final
\* total
DiscoveryCompletes(g) == Completes(g) /\ gen'[g].pc = "idle" /\ isInitialized'

\* C40: while a discovery run is in progress the total_tiles that getStats
\* reads is at most the number of rows the run has found so far, and when the
\* run completes it is the number of rows of the tiles table
C40_TotalFollowsDiscovery ==
    [][\A g \in GenRuns :
          /\ (DiscoveryInProgress(g) /\ stats # <<>>)' =>
                 (getStats(stats).total_tiles <= FoundSoFar(g))'
          /\ DiscoveryCompletes(g) =>
                 /\ stats' # <<>>
                 /\ getStats(stats').total_tiles = Cardinality(tiles')]_vars

====
